---------------------------- MODULE Spec2Model ----------------------------
(***************************************************************************)
(* A model of the pipeline of FCRAG: the online Deduplicator               *)
(* (utils/dedup.py), the Tokenizer (utils/tokenizer.py), the chunk         *)
(* splitter TextSplitter (chunking/splitter.py), the Reranker              *)
(* (retrieval/reranker.py), the BairenEmbedder                             *)
(* (embeddings/bairen_embedder.py), the ingestion loop (main.py,           *)
(* backend/main.py) and the query flow of the backend (backend/main.py,    *)
(* retrieval/searcher.py).                                                 *)
(*                                                                         *)
(* Texts handed to the Deduplicator are strings; texts handed to the       *)
(* splitter are sequences of one-character strings, so that strip, split   *)
(* and join can be computed character by character; texts handed to the    *)
(* Reranker are sequences of words.  Scores are fixed-point integers.       *)
(***************************************************************************)
EXTENDS Integers, Sequences, FiniteSets, TLC

VARIABLES
    \* ---- Deduplicator (utils/dedup.py) ----
    SIMHASH_AVAILABLE,   \* module flag set by the import of simhash
    dedup_strategy,      \* Deduplicator.strategy
    seen_md5s,           \* Deduplicator.seen_md5s       (set of hex digests)
    seen_simhashes,      \* Deduplicator.seen_simhashes  (list of fingerprints)
    seen_embeddings,     \* Deduplicator.seen_embeddings (list of vectors)
    calls,               \* history of is_duplicate calls: text, embedding, outcome
    \* ---- Tokenizer (utils/tokenizer.py) ----
    JIEBA_AVAILABLE,     \* module flag set by the import of jieba
    \* ---- TextSplitter (chunking/splitter.py) ----
    pc,                  \* "new", "ready", "sliding", "hybrid", "returned", "raised"
    strategy,            \* TextSplitter.strategy
    chunk_size,          \* TextSplitter.chunk_size
    chunk_overlap,       \* TextSplitter.chunk_overlap
    document,            \* the argument of the split call in progress
    tokens,              \* _sliding_token_split: tokens
    start,               \* _sliding_token_split: start
    chunks,              \* _sliding_token_split: chunks
    windows,             \* the (start, end) of every window cut by the loop
    caller,              \* who called _sliding_token_split: "split" or "hybrid"
    hybrid_todo,         \* _hybrid_split: pieces not yet looked at
    hybrid_chunks,       \* _hybrid_split: chunks
    document_chunks,     \* what split returned
    raised,              \* the exception split raised, or "none"
    \* ---- Reranker (retrieval/reranker.py) ----
    config,              \* config['reranker'], loaded when the module is imported
    rerank_pc,           \* "new", "unconstructed", "ready", "returned", "raised"
    mode,                \* Reranker.mode
    weights,             \* Reranker.weights
    query,               \* the query of the rerank call
    candidates,          \* the candidates of the rerank call
    reranked,            \* what the rerank call returned
    rerank_raised,       \* the exception the Reranker raised, or "none"
    \* ---- ingestion (main.py RAGEngine.ingest, backend/main.py upload_file) ----
    ingest_pc,           \* "idle", "document", "dedup", "embed", "insert"
    ingest_calls,        \* number of ingestion calls started on the instance
    docs_left,           \* documents of the call not yet finished
    doc_chunks,          \* chunks: the chunks of the document in progress
    chunk_i,             \* position of the next chunk of the dedup loop
    judged,              \* what is_duplicate answered for each chunk so far
    valid_chunks,        \* valid_chunks
    embed_args,          \* the texts embed was invoked with for this document
    chunk_embeddings,    \* embeddings: what embed returned for this document
    collection,          \* the rows of the Milvus collection
    ingest_raised,       \* how the last ingestion call ended
    \* ---- BairenEmbedder (embeddings/bairen_embedder.py) ----
    max_retries,         \* BairenEmbedder.max_retries
    batch_size,          \* BairenEmbedder.batch_size
    embed_pc,            \* "idle", "batch", "attempt", "returned", "raised"
    embed_texts,         \* texts: the argument of the embed call
    batch_start,         \* embed: i
    attempt,             \* _embed_batch_with_retry: attempt
    all_embeddings,      \* embed: all_embeddings
    batch_log,           \* per batch: the attempts made and the waits slept
    embed_returned,      \* what embed returned
    embed_raised,        \* the exception embed raised, or "none"
    \* ---- query flow (backend/main.py query_documents) ----
    search_results,      \* what milvus_client.search returned
    \* ---- two threads inside Deduplicator._is_md5_duplicate ----
    thread_pc,           \* per thread: "idle", "check", "record", "done"
    thread_doc,          \* per thread: the chunk of its call
    thread_result        \* per thread: what its call returned

dedup_vars == <<SIMHASH_AVAILABLE, dedup_strategy, seen_md5s, seen_simhashes,
                seen_embeddings, calls>>

split_vars == <<JIEBA_AVAILABLE, pc, strategy, chunk_size, chunk_overlap,
                document, tokens, start, chunks, windows, caller, hybrid_todo,
                hybrid_chunks, document_chunks, raised>>

rerank_vars == <<config, rerank_pc, mode, weights, query, candidates,
                 reranked, rerank_raised>>

ingest_vars == <<ingest_pc, ingest_calls, docs_left, doc_chunks, chunk_i,
                 judged, valid_chunks, embed_args, chunk_embeddings,
                 collection,
                 ingest_raised>>

embed_vars == <<max_retries, batch_size, embed_pc, embed_texts, batch_start,
                attempt, all_embeddings, batch_log, embed_returned,
                embed_raised>>

query_vars == <<search_results>>

thread_vars == <<thread_pc, thread_doc, thread_result>>

vars == <<dedup_vars, split_vars, rerank_vars, ingest_vars, embed_vars,
          query_vars, thread_vars>>

-----------------------------------------------------------------------------
(* Bounds *)

\* number of is_duplicate calls made on one Deduplicator instance
MaxCalls == 3

\* length, in characters, of the text of a document handed to split
MaxTextLen == 4

\* the largest chunk_size and chunk_overlap a splitter is configured with
MaxChunkSize == 3

\* the sliding window loop is followed for at most this many windows; a
\* loop that terminates cuts at most one window per token, hence at most
\* MaxTextLen of them
MaxWindows == 6

\* the number of candidates handed to one rerank call
MaxCandidates == 3

-----------------------------------------------------------------------------
(* Deduplicator: inputs *)

fox == "the quick brown fox"

\* the texts of the chunks offered to is_duplicate
DocTexts == {fox, "the quick brown fox!", "the quick brown fox z",
             "the quick brown fox d"}

\* a chunk is a dictionary; one of the chunks has no 'text' key
Docs == {[domain |-> "test", text |-> t] : t \in DocTexts}
            \cup {[domain |-> "test"]}

\* the optional embedding argument: None, or a list of floats
None == << >>
Some(v) == <<v>>
\* the cosine similarities of the vectors that are not null: <<1, 0>> and
\* <<4, 1>> 0.970, <<4, 1>> and <<3, 1>> 0.997, <<1, 0>> and <<3, 1>> 0.949
Vectors == {<<0, 0>>, <<1, 0>>, <<4, 1>>, <<3, 1>>}
Embeddings == {None} \cup {Some(v) : v \in Vectors}

DedupStrategies == {"md5", "simhash", "embedding", "lsh"}

\* config.get('simhash_threshold', 3)
simhash_threshold == 3
\* config.get('embedding_threshold', 0.95), as the fraction 19/20
embedding_threshold_num == 19
embedding_threshold_den == 20

-----------------------------------------------------------------------------
(* Deduplicator: helpers *)

\* doc.get('text', '')
doc_get_text(doc) == IF "text" \in DOMAIN doc THEN doc.text ELSE ""

\* hashlib.md5(text.encode('utf-8')).hexdigest(), tabulated for the texts
\* of Docs
md5_hexdigest(text) ==
    CASE text = "" -> "d41d8cd98f00b204e9800998ecf8427e"
      [] text = "the quick brown fox" -> "30f3c93e46436deb58ba70816a8ec124"
      [] text = "the quick brown fox!" -> "e99f2e770c65eac42c674cbb130d2d83"
      [] text = "the quick brown fox z" -> "4192ca817cbdba907c8afcaf8d265c01"
      [] text = "the quick brown fox d" -> "c4f58fe239908ec83bb4116871decb4d"

\* Simhash(text): the 64-bit fingerprint of the text (lower-cased, non-word
\* characters dropped, 4-character shingles, md5 feature hash), tabulated for
\* the texts of Docs as the set of the positions of its 1 bits
Simhash(text) ==
    CASE text = "" ->
         {1, 2, 3, 4, 5, 6, 9, 14, 19, 20, 21, 22, 23, 26, 27, 29, 30, 31,
          35, 36, 39, 40, 43, 55, 56, 59, 61, 62, 63}
      [] text = "the quick brown fox" ->
         {0, 1, 2, 3, 7, 11, 15, 16, 17, 19, 21, 22, 23, 24, 26, 28, 29, 30,
          31, 34, 39, 40, 43, 44, 45, 47, 48, 49, 51, 53, 59, 61, 62, 63}
      [] text = "the quick brown fox!" ->
         {0, 1, 2, 3, 7, 11, 15, 16, 17, 19, 21, 22, 23, 24, 26, 28, 29, 30,
          31, 34, 39, 40, 43, 44, 45, 47, 48, 49, 51, 53, 59, 61, 62, 63}
      [] text = "the quick brown fox z" ->
         {0, 1, 2, 3, 7, 11, 15, 16, 17, 19, 21, 22, 23, 24, 26, 29, 30, 31,
          34, 39, 40, 43, 44, 47, 48, 49, 53, 59, 61, 62, 63}
      [] text = "the quick brown fox d" ->
         {0, 1, 2, 3, 7, 11, 15, 16, 17, 19, 21, 22, 23, 26, 29, 30, 31, 34,
          39, 40, 43, 44, 47, 48, 49, 53, 61, 62, 63}

\* Simhash.distance: the number of bit positions in which two fingerprints
\* differ
distance(a, b) == Cardinality((a \ b) \cup (b \ a))

RECURSIVE dot(_, _)
dot(a, b) == IF a = << >> THEN 0 ELSE Head(a) * Head(b) + dot(Tail(a), Tail(b))

\* np.linalg.norm(v) ** 2
norm2(v) == dot(v, v)

\* similarity >= embedding_threshold, for similarity the dot product of the
\* two vectors after each was divided by its norm.  A vector of norm 0 is
\* divided into NaNs, the similarity is NaN and NaN >= t is false.
similar(seen, emb) ==
    /\ norm2(seen) # 0
    /\ norm2(emb) # 0
    /\ dot(seen, emb) >= 0
    /\ dot(seen, emb) * dot(seen, emb)
          * embedding_threshold_den * embedding_threshold_den
       >= embedding_threshold_num * embedding_threshold_num
          * norm2(seen) * norm2(emb)

-----------------------------------------------------------------------------
(* Deduplicator: methods.  Each yields the outcome of the call ("True",    *)
(* "False" or the exception raised) and the three stores after the call.   *)

Outcome(result, md5s, simhashes, embeddings) ==
    [result |-> result, seen_md5s |-> md5s, seen_simhashes |-> simhashes,
     seen_embeddings |-> embeddings]

\* a call that raises before it touches a store
Raise(exc) == Outcome(exc, seen_md5s, seen_simhashes, seen_embeddings)

\* mutant: the hash is never recorded
is_md5_duplicate_norecord(doc) ==
    LET md5_hash == md5_hexdigest(doc_get_text(doc))
    IN  IF md5_hash \in seen_md5s
        THEN Outcome("True", seen_md5s, seen_simhashes, seen_embeddings)
        ELSE Outcome("False", seen_md5s, seen_simhashes, seen_embeddings)

is_md5_duplicate(doc) ==
    LET md5_hash == md5_hexdigest(doc_get_text(doc))
    IN  IF md5_hash \in seen_md5s
        THEN Outcome("True", seen_md5s, seen_simhashes, seen_embeddings)
        ELSE Outcome("False", seen_md5s \cup {md5_hash}, seen_simhashes,
                     seen_embeddings)

\* mutant: a fingerprint at exactly simhash_threshold is not a duplicate
is_simhash_duplicate_strict(doc) ==
    IF ~SIMHASH_AVAILABLE
    THEN Raise("ImportError")
    ELSE LET doc_simhash == Simhash(doc_get_text(doc))
         IN  IF \E i \in 1..Len(seen_simhashes) :
                    distance(seen_simhashes[i], doc_simhash) < simhash_threshold
             THEN Outcome("True", seen_md5s, seen_simhashes, seen_embeddings)
             ELSE Outcome("False", seen_md5s,
                          Append(seen_simhashes, doc_simhash), seen_embeddings)

is_simhash_duplicate(doc) ==
    IF ~SIMHASH_AVAILABLE
    THEN Raise("ImportError")
    ELSE LET doc_simhash == Simhash(doc_get_text(doc))
         IN  IF \E i \in 1..Len(seen_simhashes) :
                    distance(seen_simhashes[i], doc_simhash) <= simhash_threshold
             THEN Outcome("True", seen_md5s, seen_simhashes, seen_embeddings)
             ELSE Outcome("False", seen_md5s,
                          Append(seen_simhashes, doc_simhash), seen_embeddings)

\* mutant: the vector is compared with the last stored vector only
is_embedding_duplicate_lastonly(embedding) ==
    IF seen_embeddings = << >>
    THEN Outcome("False", seen_md5s, seen_simhashes,
                 Append(seen_embeddings, embedding))
    ELSE IF similar(seen_embeddings[Len(seen_embeddings)], embedding)
         THEN Outcome("True", seen_md5s, seen_simhashes, seen_embeddings)
         ELSE Outcome("False", seen_md5s, seen_simhashes,
                      Append(seen_embeddings, embedding))

\* mutant: a new vector replaces the stored ones
is_embedding_duplicate_keeplast(embedding) ==
    IF seen_embeddings = << >>
    THEN Outcome("False", seen_md5s, seen_simhashes, <<embedding>>)
    ELSE IF \E i \in 1..Len(seen_embeddings) :
                 similar(seen_embeddings[i], embedding)
         THEN Outcome("True", seen_md5s, seen_simhashes, seen_embeddings)
         ELSE Outcome("False", seen_md5s, seen_simhashes, <<embedding>>)

is_embedding_duplicate(embedding) ==
    IF seen_embeddings = << >>
    THEN Outcome("False", seen_md5s, seen_simhashes,
                 Append(seen_embeddings, embedding))
    ELSE IF \E i \in 1..Len(seen_embeddings) :
                 similar(seen_embeddings[i], embedding)
         THEN Outcome("True", seen_md5s, seen_simhashes, seen_embeddings)
         ELSE Outcome("False", seen_md5s, seen_simhashes,
                      Append(seen_embeddings, embedding))

\* mutant: a missing vector is taken for the null vector
is_duplicate_nullvector(doc, embedding) ==
    IF dedup_strategy = "md5" THEN is_md5_duplicate(doc)
    ELSE IF dedup_strategy = "simhash" THEN is_simhash_duplicate(doc)
    ELSE IF dedup_strategy = "embedding"
         THEN IF embedding = None
              THEN is_embedding_duplicate(<<0, 0>>)
              ELSE is_embedding_duplicate(embedding[1])
    ELSE Raise("ValueError")

is_duplicate(doc, embedding) ==
    IF dedup_strategy = "md5" THEN is_md5_duplicate(doc)
    ELSE IF dedup_strategy = "simhash" THEN is_simhash_duplicate(doc)
    ELSE IF dedup_strategy = "embedding"
         THEN IF embedding = None
              THEN Raise("ValueError")
              ELSE is_embedding_duplicate(embedding[1])
    ELSE Raise("ValueError")

-----------------------------------------------------------------------------
(* Deduplicator: state machine *)

\* Deduplicator.__init__: the strategy is taken from the configuration as it
\* is, the three stores start empty
DedupInit ==
    /\ SIMHASH_AVAILABLE \in BOOLEAN
    /\ dedup_strategy \in DedupStrategies
    /\ seen_md5s = {}
    /\ seen_simhashes = << >>
    /\ seen_embeddings = << >>
    /\ calls = << >>

\* one call of is_duplicate(doc, embedding)
IsDuplicate(doc, embedding) ==
    /\ Len(calls) < MaxCalls
    /\ LET out == is_duplicate(doc, embedding)
       IN  /\ seen_md5s' = out.seen_md5s
           /\ seen_simhashes' = out.seen_simhashes
           /\ seen_embeddings' = out.seen_embeddings
           /\ calls' = Append(calls, [text |-> doc_get_text(doc),
                                      embedding |-> embedding,
                                      result |-> out.result])
    /\ UNCHANGED <<SIMHASH_AVAILABLE, dedup_strategy>>
    /\ UNCHANGED <<split_vars, rerank_vars>>
    /\ UNCHANGED <<ingest_vars, embed_vars, query_vars, thread_vars>>

DedupNext == \E doc \in Docs, embedding \in Embeddings : IsDuplicate(doc, embedding)

-----------------------------------------------------------------------------
(* Texts of documents: sequences of characters *)

NL == "\n"
Whitespace == {" ", NL}
\* sentence-terminal punctuation, the class [.!?。！？] of _sentence_split
Punctuation == {"."}
Letters == {"a"}
Chars == Letters \cup Whitespace \cup Punctuation

Texts == UNION {[1..n -> Chars] : n \in 0..MaxTextLen}

\* a document is a dictionary; one of the documents has no 'text' key
Documents == {[text |-> t, metadata |-> "m"] : t \in Texts}
                 \cup {[metadata |-> "m"]}

\* document.get('text', '')
document_get_text(doc) == IF "text" \in DOMAIN doc THEN doc.text ELSE << >>

Min(a, b) == IF a < b THEN a ELSE b
Max(S) == CHOOSE x \in S : \A y \in S : y <= x

\* str.strip()
RECURSIVE lstrip(_)
lstrip(s) ==
    IF s # << >> /\ Head(s) \in Whitespace THEN lstrip(Tail(s)) ELSE s

RECURSIVE rstrip(_)
rstrip(s) ==
    IF s # << >> /\ s[Len(s)] \in Whitespace
    THEN rstrip(SubSeq(s, 1, Len(s) - 1))
    ELSE s

strip(s) == rstrip(lstrip(s))

\* ''.join(parts)
RECURSIVE join(_)
join(parts) == IF parts = << >> THEN << >> ELSE Head(parts) \o join(Tail(parts))

\* [strip(p) for p in parts if strip(p)]
strip_nonempty(parts) ==
    SelectSeq([i \in 1..Len(parts) |-> strip(parts[i])], LAMBDA p : p # << >>)

\* seq[lo:hi] with Python's rules for indices that are negative or too large
py_index(i, n) ==
    IF i < 0 THEN (IF i + n < 0 THEN 0 ELSE i + n) ELSE (IF i > n THEN n ELSE i)

py_slice(seq, lo, hi) ==
    LET l == py_index(lo, Len(seq))
        h == py_index(hi, Len(seq))
    IN  IF l >= h THEN << >> ELSE SubSeq(seq, l + 1, h)

-----------------------------------------------------------------------------
(* Tokenizer *)

\* text.split(): the maximal runs of characters that are not whitespace
RECURSIVE str_split_from(_, _, _)
str_split_from(s, word, acc) ==
    IF s = << >>
    THEN IF word = << >> THEN acc ELSE Append(acc, word)
    ELSE IF Head(s) \in Whitespace
         THEN str_split_from(Tail(s), << >>,
                             IF word = << >> THEN acc ELSE Append(acc, word))
         ELSE str_split_from(Tail(s), Append(word, Head(s)), acc)

str_split(text) == str_split_from(text, << >>, << >>)

\* list(jieba.cut(text)): a segmentation that keeps every character.  Each
\* whitespace character is a token of its own; a run of letters is a token
\* and a run of punctuation is a token.
CharClass(c) == IF c \in Letters THEN "word" ELSE "punct"

RECURSIVE jieba_cut_from(_, _, _)
jieba_cut_from(s, word, acc) ==
    LET flushed == IF word = << >> THEN acc ELSE Append(acc, word)
    IN  IF s = << >>
        THEN flushed
        ELSE IF Head(s) \in Whitespace
             THEN jieba_cut_from(Tail(s), << >>, Append(flushed, <<Head(s)>>))
             ELSE IF word # << >> /\ CharClass(word[1]) # CharClass(Head(s))
                  THEN jieba_cut_from(Tail(s), <<Head(s)>>, flushed)
                  ELSE jieba_cut_from(Tail(s), Append(word, Head(s)), acc)

jieba_cut(text) == jieba_cut_from(text, << >>, << >>)

\* Tokenizer.tokenize
tokenize(text) == IF JIEBA_AVAILABLE THEN jieba_cut(text) ELSE str_split(text)

\* Tokenizer.count_tokens
count_tokens(text) == Len(tokenize(text))

-----------------------------------------------------------------------------
(* TextSplitter: the strategies that run in one piece *)

\* re.split(r'[.!?。！？]', text): the pieces between punctuation marks
RECURSIVE re_split_punct_from(_, _, _)
re_split_punct_from(s, piece, acc) ==
    IF s = << >>
    THEN Append(acc, piece)
    ELSE IF Head(s) \in Punctuation
         THEN re_split_punct_from(Tail(s), << >>, Append(acc, piece))
         ELSE re_split_punct_from(Tail(s), Append(piece, Head(s)), acc)

re_split_punct(text) == re_split_punct_from(text, << >>, << >>)

\* the last index of a match of \n\s*\n that starts at index i, or 0 when
\* none starts there (\s* is greedy: the match ends at the last newline of
\* the whitespace run)
blank_line_end(s, i) ==
    IF s[i] # NL
    THEN 0
    ELSE LET ends == {k \in (i + 1)..Len(s) :
                         /\ s[k] = NL
                         /\ \A m \in (i + 1)..k : s[m] \in Whitespace}
         IN  IF ends = {} THEN 0 ELSE Max(ends)

\* re.split(r'\n\s*\n', text): the pieces between blank lines
RECURSIVE re_split_blank_from(_, _, _, _)
re_split_blank_from(s, i, begin, acc) ==
    IF i > Len(s)
    THEN Append(acc, SubSeq(s, begin, Len(s)))
    ELSE LET e == blank_line_end(s, i)
         IN  IF e = 0
             THEN re_split_blank_from(s, i + 1, begin, acc)
             ELSE re_split_blank_from(s, e + 1, e + 1,
                                      Append(acc, SubSeq(s, begin, i - 1)))

re_split_blank(text) == re_split_blank_from(text, 1, 1, << >>)

\* mutant: a chunk is flushed only once it is already over chunk_size
RECURSIVE sentence_pack_late(_, _, _, _)
sentence_pack_late(sentences, out, current_chunk, current_tokens) ==
    IF sentences = << >>
    THEN IF current_chunk # << >>
         THEN Append(out, strip(current_chunk))
         ELSE out
    ELSE LET sentence == Head(sentences)
             sentence_tokens == count_tokens(sentence)
         IN  IF current_tokens > chunk_size /\ current_chunk # << >>
             THEN sentence_pack_late(Tail(sentences),
                                     Append(out, strip(current_chunk)),
                                     sentence, sentence_tokens)
             ELSE sentence_pack_late(Tail(sentences), out,
                                     current_chunk \o sentence \o <<" ">>,
                                     current_tokens + sentence_tokens)

\* the packing loop of _sentence_split and what follows it
RECURSIVE sentence_pack(_, _, _, _)
sentence_pack(sentences, out, current_chunk, current_tokens) ==
    IF sentences = << >>
    THEN IF current_chunk # << >>
         THEN Append(out, strip(current_chunk))
         ELSE out
    ELSE LET sentence == Head(sentences)
             sentence_tokens == count_tokens(sentence)
         IN  IF current_tokens + sentence_tokens > chunk_size
                /\ current_chunk # << >>
             THEN sentence_pack(Tail(sentences),
                                Append(out, strip(current_chunk)),
                                sentence, sentence_tokens)
             ELSE sentence_pack(Tail(sentences), out,
                                current_chunk \o sentence \o <<" ">>,
                                current_tokens + sentence_tokens)

\* TextSplitter._sentence_split
sentence_split(text) ==
    sentence_pack(strip_nonempty(re_split_punct(text)), << >>, << >>, 0)

\* mutant: the paragraph that does not fit is dropped with the flush
RECURSIVE paragraph_pack_dropping(_, _, _, _)
paragraph_pack_dropping(paragraphs, out, current_chunk, current_tokens) ==
    IF paragraphs = << >>
    THEN IF current_chunk # << >>
         THEN Append(out, strip(current_chunk))
         ELSE out
    ELSE LET paragraph == Head(paragraphs)
             paragraph_tokens == count_tokens(paragraph)
         IN  IF current_tokens + paragraph_tokens > chunk_size
                /\ current_chunk # << >>
             THEN paragraph_pack_dropping(Tail(paragraphs),
                                          Append(out, strip(current_chunk)),
                                          << >>, 0)
             ELSE paragraph_pack_dropping(Tail(paragraphs), out,
                                 IF current_chunk # << >>
                                 THEN current_chunk \o <<NL, NL>> \o paragraph
                                 ELSE paragraph,
                                 current_tokens + paragraph_tokens)

\* the packing loop of _paragraph_split and what follows it
RECURSIVE paragraph_pack(_, _, _, _)
paragraph_pack(paragraphs, out, current_chunk, current_tokens) ==
    IF paragraphs = << >>
    THEN IF current_chunk # << >>
         THEN Append(out, strip(current_chunk))
         ELSE out
    ELSE LET paragraph == Head(paragraphs)
             paragraph_tokens == count_tokens(paragraph)
         IN  IF current_tokens + paragraph_tokens > chunk_size
                /\ current_chunk # << >>
             THEN paragraph_pack(Tail(paragraphs),
                                 Append(out, strip(current_chunk)),
                                 paragraph, paragraph_tokens)
             ELSE paragraph_pack(Tail(paragraphs), out,
                                 IF current_chunk # << >>
                                 THEN current_chunk \o <<NL, NL>> \o paragraph
                                 ELSE paragraph,
                                 current_tokens + paragraph_tokens)

\* TextSplitter._paragraph_split
paragraph_split(text) ==
    paragraph_pack(strip_nonempty(re_split_blank(text)), << >>, << >>, 0)

\* the packing loop of _sentence_split (lines 107-115) and of
\* _paragraph_split (lines 140-150), followed for the units instead of the
\* text: the units (sentences or paragraphs) each chunk was packed from.
\* Every unit is non-empty, so the chunk being packed is non-empty exactly
\* when a unit has gone into it.
RECURSIVE pack_units(_, _, _, _)
pack_units(units, out, current_units, current_tokens) ==
    IF units = << >>
    THEN IF current_units # << >> THEN Append(out, current_units) ELSE out
    ELSE LET unit == Head(units)
             unit_tokens == count_tokens(unit)
         IN  IF current_tokens + unit_tokens > chunk_size
                /\ current_units # << >>
             THEN pack_units(Tail(units), Append(out, current_units),
                             <<unit>>, unit_tokens)
             ELSE pack_units(Tail(units), out, Append(current_units, unit),
                             current_tokens + unit_tokens)

\* the sentences of _sentence_split (lines 100-101) and the paragraphs of
\* _paragraph_split (lines 133-134)
sentences_of(text) == strip_nonempty(re_split_punct(text))
paragraphs_of(text) == strip_nonempty(re_split_blank(text))

\* _hybrid_split, lines 166-181 without the sliding split: the pieces of the
\* text in order.  A paragraph over chunk_size gives its sentence chunks,
\* each of which is still to be tested against chunk_size (sliding = TRUE
\* marks it); any other paragraph is a piece as it is.
RECURSIVE hybrid_pieces(_)
hybrid_pieces(paragraphs) ==
    IF paragraphs = << >>
    THEN << >>
    ELSE LET paragraph == Head(paragraphs)
             sentence_chunks == sentence_split(paragraph)
         IN  (IF count_tokens(paragraph) > chunk_size
              THEN [i \in 1..Len(sentence_chunks) |->
                       [text |-> sentence_chunks[i], from_sentence |-> TRUE]]
              ELSE <<[text |-> paragraph, from_sentence |-> FALSE]>>)
             \o hybrid_pieces(Tail(paragraphs))

\* _hybrid_split, lines 184-202: merge small chunks
RECURSIVE hybrid_merge(_, _, _, _)
hybrid_merge(pieces, merged_chunks, current_chunk, current_tokens) ==
    IF pieces = << >>
    THEN IF current_chunk # << >>
         THEN Append(merged_chunks, current_chunk)
         ELSE merged_chunks
    ELSE LET chunk == Head(pieces)
             chunk_tokens == count_tokens(chunk)
         IN  IF current_tokens + chunk_tokens <= chunk_size
             THEN hybrid_merge(Tail(pieces), merged_chunks,
                               IF current_chunk # << >>
                               THEN current_chunk \o <<NL, NL>> \o chunk
                               ELSE chunk,
                               current_tokens + chunk_tokens)
             ELSE hybrid_merge(Tail(pieces),
                               IF current_chunk # << >>
                               THEN Append(merged_chunks, current_chunk)
                               ELSE merged_chunks,
                               chunk, chunk_tokens)

\* _hybrid_split, lines 184-202, followed for the pieces instead of the
\* text: the pieces each merged chunk was put together from.  Every piece is
\* non-empty, so the chunk being merged is non-empty exactly when a piece
\* has gone into it.
RECURSIVE merge_pieces(_, _, _, _)
merge_pieces(pieces, merged, current_pieces, current_tokens) ==
    IF pieces = << >>
    THEN IF current_pieces # << >> THEN Append(merged, current_pieces)
         ELSE merged
    ELSE LET chunk == Head(pieces)
             chunk_tokens == count_tokens(chunk)
         IN  IF current_tokens + chunk_tokens <= chunk_size
             THEN merge_pieces(Tail(pieces), merged,
                               Append(current_pieces, chunk),
                               current_tokens + chunk_tokens)
             ELSE merge_pieces(Tail(pieces),
                               IF current_pieces # << >>
                               THEN Append(merged, current_pieces)
                               ELSE merged,
                               <<chunk>>, chunk_tokens)

\* mutant: chunk_index counts from 1
make_document_chunks_from_one(doc, texts) ==
    [i \in 1..Len(texts) |->
        [text |-> texts[i],
         metadata |-> [chunk_index |-> i, chunk_total |-> Len(texts)]]]

\* split, lines 50-57: one copy of the document per chunk with the chunk's
\* text, its index and the number of chunks
make_document_chunks(doc, texts) ==
    [i \in 1..Len(texts) |->
        [text |-> texts[i],
         metadata |-> [chunk_index |-> i - 1, chunk_total |-> Len(texts)]]]

\* mutant: only the empty text is blank
text_is_blank_nostrip(text) == text = << >>

\* split, line 35: not text.strip()
text_is_blank(text) == strip(text) = << >>

\* mutant: the window moves on by a whole chunk_size
next_start_nooverlap(s) == s + chunk_size

\* mutant: the window moves on by the overlap
next_start_byoverlap(s) == s + chunk_overlap

\* _sliding_token_split, line 85
next_start(s) == s + chunk_size - chunk_overlap

-----------------------------------------------------------------------------
(* TextSplitter: state machine.  split keeps nothing between calls (it      *)
(* reads the configuration only), so one call per instance is followed.     *)

SplitStrategies == {"sliding_token", "sentence", "paragraph", "hybrid"}

\* the strategy names a configuration may carry: the four known ones and
\* one that split does not know
ConfigStrategies == SplitStrategies \cup {"semantic"}

\* the locals of the call in progress
Locals ==
    [pc |-> pc, document |-> document, tokens |-> tokens, start |-> start,
     chunks |-> chunks, windows |-> windows, caller |-> caller,
     hybrid_todo |-> hybrid_todo, hybrid_chunks |-> hybrid_chunks,
     document_chunks |-> document_chunks, raised |-> raised]

\* the locals at the entry of split(doc)
Entry(doc) ==
    [pc |-> "ready", document |-> doc, tokens |-> << >>, start |-> 0,
     chunks |-> << >>, windows |-> << >>, caller |-> "split",
     hybrid_todo |-> << >>, hybrid_chunks |-> << >>,
     document_chunks |-> << >>, raised |-> "none"]

Become(st) ==
    /\ pc' = st.pc
    /\ document' = st.document
    /\ tokens' = st.tokens
    /\ start' = st.start
    /\ chunks' = st.chunks
    /\ windows' = st.windows
    /\ caller' = st.caller
    /\ hybrid_todo' = st.hybrid_todo
    /\ hybrid_chunks' = st.hybrid_chunks
    /\ document_chunks' = st.document_chunks
    /\ raised' = st.raised
    /\ UNCHANGED <<JIEBA_AVAILABLE, strategy, chunk_size, chunk_overlap>>
    /\ UNCHANGED <<dedup_vars, rerank_vars>>
    /\ UNCHANGED <<ingest_vars, embed_vars, query_vars, thread_vars>>

\* split, lines 49-60: the chunk texts become the returned chunks
Return(st, texts) ==
    [st EXCEPT !.pc = "returned",
               !.document_chunks = make_document_chunks(st.document, texts)]

\* _hybrid_split between two pieces: with no piece left the chunks are
\* merged and split returns
HybridAdvance(st) ==
    IF st.hybrid_todo = << >>
    THEN Return(st, hybrid_merge(st.hybrid_chunks, << >>, << >>, 0))
    ELSE [st EXCEPT !.pc = "hybrid"]

\* _sliding_token_split, lines 72-75
EnterSliding(st, text, who) ==
    [st EXCEPT !.pc = "sliding", !.tokens = tokenize(text), !.start = 0,
               !.chunks = << >>, !.windows = << >>, !.caller = who]

\* _sliding_token_split, line 87, and what its caller does with the chunks
SlidingReturn(st) ==
    IF st.caller = "split"
    THEN Return(st, st.chunks)
    ELSE HybridAdvance([st EXCEPT !.hybrid_chunks = @ \o st.chunks])

\* _sliding_token_split, lines 76-85: one pass of the while loop
sliding_iteration(st) ==
    IF st.start < Len(st.tokens)
    THEN LET end == Min(st.start + chunk_size, Len(st.tokens))
             chunk_tokens == py_slice(st.tokens, st.start, end)
             chunk_text == join(chunk_tokens)
             st1 == [st EXCEPT !.chunks = Append(@, chunk_text),
                               !.windows = Append(@, <<st.start, end>>)]
         IN  IF end = Len(st.tokens)
             THEN SlidingReturn(st1)
             ELSE [st1 EXCEPT !.start = next_start(st.start)]
    ELSE SlidingReturn(st)

\* split, lines 34-47
split_entry(st) ==
    LET text == document_get_text(st.document)
    IN  IF text_is_blank(text) THEN [st EXCEPT !.pc = "returned"]
        ELSE IF strategy = "sliding_token" THEN EnterSliding(st, text, "split")
        ELSE IF strategy = "sentence" THEN Return(st, sentence_split(text))
        ELSE IF strategy = "paragraph" THEN Return(st, paragraph_split(text))
        ELSE IF strategy = "hybrid"
             THEN HybridAdvance([st EXCEPT !.hybrid_todo =
                                    hybrid_pieces(paragraph_split(text))])
        ELSE [st EXCEPT !.pc = "raised", !.raised = "ValueError"]

\* mutant: a sentence chunk over chunk_size is kept as it is
hybrid_piece_nosliding(st) ==
    LET piece == Head(st.hybrid_todo)
        st1 == [st EXCEPT !.hybrid_todo = Tail(@)]
    IN  HybridAdvance([st1 EXCEPT !.hybrid_chunks = Append(@, piece.text)])

\* _hybrid_split, lines 169-181: the next piece
hybrid_piece(st) ==
    LET piece == Head(st.hybrid_todo)
        st1 == [st EXCEPT !.hybrid_todo = Tail(@)]
    IN  IF piece.from_sentence /\ count_tokens(piece.text) > chunk_size
        THEN EnterSliding(st1, piece.text, "hybrid")
        ELSE HybridAdvance([st1 EXCEPT !.hybrid_chunks = Append(@, piece.text)])

SplitInit ==
    /\ JIEBA_AVAILABLE \in BOOLEAN
    /\ pc = "new"
    /\ strategy = ""
    /\ chunk_size = 0
    /\ chunk_overlap = 0
    /\ document = [metadata |-> "m"]
    /\ tokens = << >>
    /\ start = 0
    /\ chunks = << >>
    /\ windows = << >>
    /\ caller = "split"
    /\ hybrid_todo = << >>
    /\ hybrid_chunks = << >>
    /\ document_chunks = << >>
    /\ raised = "none"

\* TextSplitter.__init__: the configuration is stored as it is
Construct(name, size, overlap) ==
    /\ pc = "new"
    /\ pc' = "ready"
    /\ strategy' = name
    /\ chunk_size' = size
    /\ chunk_overlap' = overlap
    /\ UNCHANGED <<JIEBA_AVAILABLE, document, tokens, start, chunks, windows,
                   caller, hybrid_todo, hybrid_chunks, document_chunks, raised>>
    /\ UNCHANGED <<dedup_vars, rerank_vars>>
    /\ UNCHANGED <<ingest_vars, embed_vars, query_vars, thread_vars>>

\* split(doc), up to its return, its raise or its first pass of a loop
Split(doc) ==
    /\ pc = "ready"
    /\ Become(split_entry(Entry(doc)))

\* one pass of the while loop of _sliding_token_split
SlidingIteration ==
    /\ pc = "sliding"
    /\ Len(chunks) < MaxWindows
    /\ Become(sliding_iteration(Locals))

\* one pass of the piece loop of _hybrid_split
HybridPiece ==
    /\ pc = "hybrid"
    /\ Become(hybrid_piece(Locals))

SplitNext ==
    \/ \E name \in ConfigStrategies, size \in 1..MaxChunkSize,
          overlap \in 0..MaxChunkSize : Construct(name, size, overlap)
    \/ \E doc \in Documents : Split(doc)
    \/ SlidingIteration
    \/ HybridPiece

-----------------------------------------------------------------------------
(* TextSplitter: documents made of whole units.  The texts of Documents    *)
(* are too short to hold three units; these are one to MaxUnits units, "a" *)
(* or "a a", separated by a full stop or by a blank line.                   *)

\* units of one document
MaxUnits == 3

Units == {<<"a">>, <<"a", " ", "a">>}

RECURSIVE joined_by(_, _)
joined_by(units, separator) ==
    IF Len(units) <= 1 THEN join(units)
    ELSE Head(units) \o separator \o joined_by(Tail(units), separator)

UnitDocuments ==
    {[text |-> joined_by(us, separator), metadata |-> "m"] :
        us \in UNION {[1..n -> Units] : n \in 1..MaxUnits},
        separator \in {<<".">>, <<NL, NL>>}}

UnitNext ==
    \/ \E name \in ConfigStrategies, size \in 1..MaxChunkSize,
          overlap \in 0..MaxChunkSize : Construct(name, size, overlap)
    \/ \E doc \in UnitDocuments : Split(doc)
    \/ SlidingIteration
    \/ HybridPiece

-----------------------------------------------------------------------------
(* Reranker: inputs.  A text is a sequence of words.  Weights and ANN      *)
(* scores are counted in tenths, lexical scores in millionths, normalised  *)
(* lexical scores in thousandths and the final score of the mixed mode in  *)
(* ten-thousandths.                                                        *)

\* words of one character, which the token pattern \w\w+ of TfidfVectorizer
\* does not match
OneCharWords == {"x"}

Queries == {<<"ai">>, <<"x">>}
Contents == {<<"ai">>, <<"ai", "ml">>, <<"x">>}

\* a candidate is a dictionary; one of them has no 'distance' key
Candidates == {[content |-> c, distance |-> d] : c \in Contents, d \in {5, 9}}
                  \cup {[content |-> <<"ai">>]}

CandidateLists == UNION {[1..n -> Candidates] : n \in 0..MaxCandidates}

RerankModes == {"cross_encoder", "embedding_bm25_mixed"}

\* config['reranker'] as config.yaml may give it: a known or an unknown
\* mode, weights with both keys the code reads or without 'bm25', or no
\* 'weights' key at all
ConfigModes == RerankModes \cup {"colbert"}
ConfigWeights == {[ann |-> 7, bm25 |-> 3], [ann |-> 2, bm25 |-> 8],
                  [ann |-> 7]}
RerankerConfigs == {[mode |-> m, weights |-> w] :
                        m \in ConfigModes, w \in ConfigWeights}
                       \cup {[mode |-> "embedding_bm25_mixed"]}

\* self.weights.get('ann', 0.7) and self.weights.get('bm25', 0.3), in tenths
default_w_ann == 7
default_w_bm25 == 3

-----------------------------------------------------------------------------
(* Reranker: the TF-IDF vector space of TfidfVectorizer()                   *)

\* the tokens of a text: its words of two or more characters
tfidf_tokens(text) == SelectSeq(text, LAMBDA w : w \notin OneCharWords)

\* vectorizer.vocabulary_
vocabulary(all_texts) ==
    UNION {{tfidf_tokens(all_texts[i])[j] :
               j \in 1..Len(tfidf_tokens(all_texts[i]))} :
           i \in 1..Len(all_texts)}

\* the number of times term occurs in text
term_count(text, term) ==
    Cardinality({j \in 1..Len(tfidf_tokens(text)) :
                    tfidf_tokens(text)[j] = term})

\* the number of texts term occurs in
document_frequency(all_texts, term) ==
    Cardinality({i \in 1..Len(all_texts) : term_count(all_texts[i], term) > 0})

\* 1000 * (ln((1 + n) / (1 + df)) + 1), the smoothed idf of a term found in
\* df of n texts
idf(n, df) ==
    << <<1000>>,
       <<1405, 1000>>,
       <<1693, 1288, 1000>>,
       <<1916, 1511, 1223, 1000>>,
       <<2099, 1693, 1405, 1182, 1000>>,
       <<2253, 1847, 1560, 1336, 1154, 1000>>,
       <<2386, 1981, 1693, 1470, 1288, 1134, 1000>> >>[n][df]

\* the integer part of the square root of x
RECURSIVE isqrt_from(_, _)
isqrt_from(x, r) ==
    LET next == (r + x \div r) \div 2
    IN  IF next >= r THEN r ELSE isqrt_from(x, next)

isqrt(x) == IF x = 0 THEN 0 ELSE isqrt_from(x, x)

\* the sum of f[t] over the terms t of S
RECURSIVE sum_over(_, _)
sum_over(S, f) ==
    IF S = {} THEN 0
    ELSE LET t == CHOOSE u \in S : TRUE
         IN  f[t] + sum_over(S \ {t}, f)

\* vectorizer.idf_: the idf of every term of the vocabulary
idf_vector(all_texts) ==
    [t \in vocabulary(all_texts) |->
        idf(Len(all_texts), document_frequency(all_texts, t))]

\* one row of tfidf_matrix: count * idf for every term, the row divided by
\* its Euclidean norm (a row of zeros stays as it is); entries in thousandths
tfidf_row(idfs, text) ==
    LET raw == [t \in DOMAIN idfs |-> term_count(text, t) * idfs[t]]
        norm == isqrt(sum_over(DOMAIN idfs,
                               [t \in DOMAIN idfs |-> raw[t] * raw[t]]))
    IN  [t \in DOMAIN idfs |->
            IF norm = 0 THEN 0 ELSE (raw[t] * 1000) \div norm]

\* candidate_vectors.multiply(query_vector).sum(axis=1), in millionths
tfidf_scores(all_texts) ==
    LET idfs == idf_vector(all_texts)
        query_vector == tfidf_row(idfs, all_texts[Len(all_texts)])
    IN  [i \in 1..(Len(all_texts) - 1) |->
            LET candidate_vector == tfidf_row(idfs, all_texts[i])
            IN  sum_over(DOMAIN idfs,
                         [t \in DOMAIN idfs |->
                             candidate_vector[t] * query_vector[t]])]

-----------------------------------------------------------------------------
(* Reranker: methods.  Each yields the list it returns, or the name of the  *)
(* exception it raises.                                                     *)

\* what a method did: the list it returned, or the exception it raised
Returns(list) == [raised |-> "none", list |-> list]
Raises(exc) == [raised |-> exc, list |-> << >>]

\* candidate.copy() with the keys of extra set
with_keys(candidate, extra) == extra @@ candidate

\* Reranker._bm25_rerank; fit_transform raises ValueError on an empty
\* vocabulary
bm25_rerank(q, cands) ==
    LET texts == [i \in 1..Len(cands) |-> cands[i].content]
        all_texts == Append(texts, q)
    IN  IF vocabulary(all_texts) = {}
        THEN Raises("ValueError")
        ELSE LET scores == tfidf_scores(all_texts)
             IN  Returns([i \in 1..Len(cands) |->
                             with_keys(cands[i], [bm25_score |-> scores[i],
                                                  final_score |-> scores[i]])])

SeqMax(seq) == CHOOSE x \in {seq[i] : i \in 1..Len(seq)} :
                   \A i \in 1..Len(seq) : seq[i] <= x
SeqMin(seq) == CHOOSE x \in {seq[i] : i \in 1..Len(seq)} :
                   \A i \in 1..Len(seq) : x <= seq[i]

\* mutant: the scores are divided by the largest one
normalized_bm25_scores_bymax(bm25_scores) ==
    IF SeqMax(bm25_scores) # SeqMin(bm25_scores)
    THEN [i \in 1..Len(bm25_scores) |->
             (bm25_scores[i] * 1000) \div SeqMax(bm25_scores)]
    ELSE [i \in 1..Len(bm25_scores) |-> 0]

\* _mixed_rerank, lines 110-113, in thousandths
normalized_bm25_scores(bm25_scores) ==
    IF SeqMax(bm25_scores) # SeqMin(bm25_scores)
    THEN [i \in 1..Len(bm25_scores) |->
             ((bm25_scores[i] - SeqMin(bm25_scores)) * 1000)
                 \div (SeqMax(bm25_scores) - SeqMin(bm25_scores))]
    ELSE [i \in 1..Len(bm25_scores) |-> 0]

\* dict.get(key, default)
dict_get(d, key, default) == IF key \in DOMAIN d THEN d[key] ELSE default

\* Reranker._mixed_rerank, final scores in ten-thousandths
mixed_rerank(q, cands) ==
    LET ann_scores == [i \in 1..Len(cands) |-> dict_get(cands[i], "distance", 0)]
        bm25 == bm25_rerank(q, cands)
    IN  IF bm25.raised # "none"
        THEN bm25
        ELSE LET bm25_reranked == bm25.list
                 bm25_scores == [i \in 1..Len(cands) |->
                                    bm25_reranked[i].bm25_score]
                 normalized == normalized_bm25_scores(bm25_scores)
                 w_ann == dict_get(weights, "ann", default_w_ann)
                 w_bm25 == dict_get(weights, "bm25", default_w_bm25)
             IN  Returns([i \in 1..Len(cands) |->
                     with_keys(bm25_reranked[i],
                               [final_score |-> w_ann * ann_scores[i] * 100
                                                   + w_bm25 * normalized[i]])])

\* list.sort(key=lambda x: x['final_score'], reverse=True): descending, and
\* stable (candidates of equal score keep their order)
RECURSIVE sort_by_final_score(_)
sort_by_final_score(list) ==
    IF list = << >>
    THEN << >>
    ELSE LET rest == sort_by_final_score(Tail(list))
             x == Head(list)
             before == SelectSeq(rest, LAMBDA y : y.final_score > x.final_score)
             after == SelectSeq(rest, LAMBDA y : y.final_score <= x.final_score)
         IN  before \o <<x>> \o after

\* Reranker.rerank
rerank(q, cands) ==
    IF cands = << >> THEN Returns(cands)
    ELSE LET scored == IF mode = "cross_encoder" THEN bm25_rerank(q, cands)
                       ELSE IF mode = "embedding_bm25_mixed"
                            THEN mixed_rerank(q, cands)
                       ELSE Raises("ValueError")
         IN  IF scored.raised # "none" THEN scored
             ELSE Returns(sort_by_final_score(scored.list))

-----------------------------------------------------------------------------
(* Reranker: state machine.  rerank keeps nothing between calls (it reads   *)
(* the configuration only), so one call per instance is followed.           *)

\* the import of retrieval/reranker.py: config.yaml is loaded
RerankInit ==
    /\ config \in RerankerConfigs
    /\ rerank_pc = "new"
    /\ mode = ""
    /\ weights = << >>
    /\ query = << >>
    /\ candidates = << >>
    /\ reranked = << >>
    /\ rerank_raised = "none"

\* Reranker.__init__: mode and weights are read from the configuration and
\* stored as they are; a missing key raises KeyError
RerankerConstruct ==
    /\ rerank_pc = "new"
    /\ IF {"mode", "weights"} \subseteq DOMAIN config
       THEN /\ rerank_pc' = "ready"
            /\ mode' = config.mode
            /\ weights' = config.weights
            /\ UNCHANGED rerank_raised
       ELSE /\ rerank_pc' = "unconstructed"
            /\ rerank_raised' = "KeyError"
            /\ UNCHANGED <<mode, weights>>
    /\ UNCHANGED <<config, query, candidates, reranked>>
    /\ UNCHANGED <<dedup_vars, split_vars>>
    /\ UNCHANGED <<ingest_vars, embed_vars, query_vars, thread_vars>>

\* one call of rerank(q, cands) on the constructed instance
Rerank(q, cands) ==
    /\ rerank_pc = "ready"
    /\ query' = q
    /\ candidates' = cands
    /\ LET result == rerank(q, cands)
       IN  /\ rerank_pc' = IF result.raised # "none" THEN "raised"
                           ELSE "returned"
           /\ rerank_raised' = result.raised
           /\ reranked' = result.list
    /\ UNCHANGED <<config, mode, weights>>
    /\ UNCHANGED <<dedup_vars, split_vars>>
    /\ UNCHANGED <<ingest_vars, embed_vars, query_vars, thread_vars>>

RerankNext ==
    \/ RerankerConstruct
    \/ \E q \in Queries, cands \in CandidateLists : Rerank(q, cands)

-----------------------------------------------------------------------------
(* Claims about the Deduplicator *)

\* the calls made so far that returned False
FalseCalls == {i \in 1..Len(calls) : calls[i].result = "False"}

\* C1: under md5, a call with text T returns True exactly when an earlier
\* call on the instance had the same text T; the stored hashes are those of
\* the texts seen, one per call that returned False (a call that returns
\* True records nothing).
C1_Md5TrueIffSeenBefore ==
    dedup_strategy = "md5" =>
        /\ \A i \in 1..Len(calls) :
              calls[i].result =
                  IF \E j \in 1..(i - 1) : calls[j].text = calls[i].text
                  THEN "True" ELSE "False"
        /\ seen_md5s = {md5_hexdigest(calls[i].text) : i \in FalseCalls}
        /\ Cardinality(seen_md5s) = Cardinality(FalseCalls)

\* C1 witness: a first sighting, its repeat, then a new text
C1_Witness ==
    /\ dedup_strategy = "md5"
    /\ Len(calls) = 3
    /\ calls[1].text = calls[2].text
    /\ calls[2].result = "True"
    /\ calls[3].text # calls[1].text
    /\ calls[3].result = "False"

\* the strategies C2 names, with what each needs to run: the simhash library
\* for simhash, a vector for embedding
C2_Applies ==
    \/ dedup_strategy = "md5"
    \/ dedup_strategy = "simhash" /\ SIMHASH_AVAILABLE
    \/ dedup_strategy = "embedding" /\ Len(calls) >= 1
                                    /\ calls[1].embedding # None

\* C2: on a fresh instance the first call returns False and an immediately
\* following call with the same content (and the same vector) returns True.
C2_FirstFalseRepeatTrue ==
    C2_Applies =>
        /\ Len(calls) >= 1 => calls[1].result = "False"
        /\ (/\ Len(calls) >= 2
            /\ calls[2].text = calls[1].text
            /\ calls[2].embedding = calls[1].embedding)
           => calls[2].result = "True"

\* the positions of the calls that carried a vector, in order
RECURSIVE VectorCallsUpTo(_)
VectorCallsUpTo(n) ==
    IF n = 0 THEN << >>
    ELSE IF calls[n].embedding # None
         THEN Append(VectorCallsUpTo(n - 1), n)
         ELSE VectorCallsUpTo(n - 1)
VectorCalls == VectorCallsUpTo(Len(calls))

\* the results a fresh instance gives to the vectors vs offered one after
\* the other, store being the vectors accepted so far
RECURSIVE ReplayEmbedding(_, _)
ReplayEmbedding(vs, store) ==
    IF vs = << >>
    THEN << >>
    ELSE LET dup == \E i \in 1..Len(store) : similar(store[i], Head(vs))
         IN  <<IF dup THEN "True" ELSE "False">>
             \o ReplayEmbedding(Tail(vs),
                                IF dup THEN store ELSE Append(store, Head(vs)))

\* the step appended a call, and that call carried no vector
CallWithoutVector ==
    /\ Len(calls') = Len(calls) + 1
    /\ calls'[Len(calls')].embedding = None

\* C15: under embedding a call without a vector raises ValueError and leaves
\* the three stores as they were; the calls that carry a vector get the
\* results they would get had the calls without one never been made.
C15_MissingVectorFailsCallOnly ==
    /\ [](dedup_strategy = "embedding"
             => /\ \A i \in 1..Len(calls) :
                      calls[i].embedding = None
                          => calls[i].result = "ValueError"
                /\ [k \in 1..Len(VectorCalls) |-> calls[VectorCalls[k]].result]
                       = ReplayEmbedding(
                             [k \in 1..Len(VectorCalls) |->
                                 calls[VectorCalls[k]].embedding[1]], << >>))
    /\ [][(dedup_strategy = "embedding" /\ CallWithoutVector)
             => /\ calls'[Len(calls')].result = "ValueError"
                /\ UNCHANGED <<seen_md5s, seen_simhashes, seen_embeddings>>]_vars

\* C15 witness: a vector is accepted, a call without a vector fails, and
\* the same vector is then recognised
C15_Witness ==
    /\ dedup_strategy = "embedding"
    /\ Len(calls) = 3
    /\ calls[1].result = "False"
    /\ calls[2].embedding = None
    /\ calls[2].result = "ValueError"
    /\ calls[3].embedding = calls[1].embedding
    /\ calls[3].result = "True"

\* the vectors stored when call i is made: those of the earlier calls that
\* returned False, in order
RECURSIVE AcceptedBefore(_)
AcceptedBefore(i) ==
    IF i <= 1 THEN << >>
    ELSE IF calls[i - 1].result = "False"
         THEN Append(AcceptedBefore(i - 1), calls[i - 1].embedding[1])
         ELSE AcceptedBefore(i - 1)

\* cosine similarity of a and b >= embedding_threshold, as the comparison
\* of the squares; a vector of norm 0 has no cosine similarity to anything
CosineAtLeastThreshold(a, b) ==
    /\ dot(a, a) > 0
    /\ dot(b, b) > 0
    /\ dot(a, b) >= 0
    /\ embedding_threshold_den * embedding_threshold_den
          * dot(a, b) * dot(a, b)
       >= embedding_threshold_num * embedding_threshold_num
          * dot(a, a) * dot(b, b)

\* C16: under embedding the first vector offered returns False; a later
\* vector returns True exactly when its cosine similarity to one of the
\* stored vectors is at least embedding_threshold; the stored vectors are
\* those of the calls that returned False, in order.
C16_EmbeddingTrueIffSimilarToStored ==
    dedup_strategy = "embedding" =>
        /\ \A i \in 1..Len(calls) :
              calls[i].embedding # None =>
                  LET stored == AcceptedBefore(i)
                  IN  calls[i].result =
                          IF /\ stored # << >>
                             /\ \E k \in 1..Len(stored) :
                                   CosineAtLeastThreshold(stored[k],
                                                          calls[i].embedding[1])
                          THEN "True" ELSE "False"
        /\ seen_embeddings = AcceptedBefore(Len(calls) + 1)

\* C16 witness: the third vector is close to the first stored vector and not
\* to the second
C16_Witness ==
    /\ dedup_strategy = "embedding"
    /\ Len(calls) = 3
    /\ Len(seen_embeddings) = 2
    /\ calls[3].result = "True"
    /\ calls[3].embedding # None
    /\ ~CosineAtLeastThreshold(seen_embeddings[2], calls[3].embedding[1])

\* the fingerprints stored when call i is made: those of the earlier calls
\* that returned False, in order
RECURSIVE FingerprintsBefore(_)
FingerprintsBefore(i) ==
    IF i <= 1 THEN << >>
    ELSE IF calls[i - 1].result = "False"
         THEN Append(FingerprintsBefore(i - 1), Simhash(calls[i - 1].text))
         ELSE FingerprintsBefore(i - 1)

\* C17: under simhash (library installed) a call returns True exactly when
\* the fingerprint of its text is within simhash_threshold bits of a stored
\* fingerprint; the stored fingerprints are those of the calls that returned
\* False, in order.
C17_SimhashTrueIffNearStored ==
    (dedup_strategy = "simhash" /\ SIMHASH_AVAILABLE) =>
        /\ \A i \in 1..Len(calls) :
              LET stored == FingerprintsBefore(i)
              IN  calls[i].result =
                      IF \E k \in 1..Len(stored) :
                             Cardinality((stored[k] \ Simhash(calls[i].text))
                                 \cup (Simhash(calls[i].text) \ stored[k]))
                                 <= simhash_threshold
                      THEN "True" ELSE "False"
        /\ seen_simhashes = FingerprintsBefore(Len(calls) + 1)

\* C17 witness: a text exactly simhash_threshold bits from the stored one is
\* a duplicate and is not stored; a text five bits from the stored one is
\* new, although it is two bits from the rejected one
C17_Witness ==
    /\ dedup_strategy = "simhash"
    /\ SIMHASH_AVAILABLE
    /\ Len(calls) = 3
    /\ calls[1].text = fox
    /\ calls[2].text = "the quick brown fox z"
    /\ calls[2].result = "True"
    /\ calls[3].text = "the quick brown fox d"
    /\ calls[3].result = "False"
    /\ Len(seen_simhashes) = 2

\* the number of entries of the dedup state
StateSize == Cardinality(seen_md5s) + Len(seen_simhashes) + Len(seen_embeddings)

\* s is t with one more entry at the end
ExtendsByOne(s, t) == Len(s) = Len(t) + 1 /\ SubSeq(s, 1, Len(t)) = t

\* C18: every is_duplicate call, under every strategy, leaves each stored
\* hash, fingerprint and vector in place; a call that returns False adds
\* exactly one entry, a call that returns True or raises changes nothing.
C18_StateOnlyGrows ==
    [][Len(calls') = Len(calls) + 1 =>
          IF calls'[Len(calls')].result = "False"
          THEN /\ StateSize' = StateSize + 1
               /\ seen_md5s \subseteq seen_md5s'
               /\ seen_simhashes' = seen_simhashes
                      \/ ExtendsByOne(seen_simhashes', seen_simhashes)
               /\ seen_embeddings' = seen_embeddings
                      \/ ExtendsByOne(seen_embeddings', seen_embeddings)
          ELSE UNCHANGED <<seen_md5s, seen_simhashes, seen_embeddings>>]_vars

\* C18 witness: an instance that stored two hashes and then answered True,
\* still holding the two hashes
C18_Witness ==
    /\ dedup_strategy = "md5"
    /\ Len(calls) = 3
    /\ calls[1].result = "False"
    /\ calls[2].result = "False"
    /\ calls[3].result = "True"
    /\ Cardinality(seen_md5s) = 2

\* cosine similarity of a and b < embedding_threshold, as the comparison of
\* the squares; a vector of norm 0 has no cosine similarity to anything
CosineBelowThreshold(a, b) ==
    /\ dot(a, a) > 0
    /\ dot(b, b) > 0
    /\ \/ dot(a, b) < 0
       \/ embedding_threshold_den * embedding_threshold_den
             * dot(a, b) * dot(a, b)
          < embedding_threshold_num * embedding_threshold_num
             * dot(a, a) * dot(b, b)

\* C28: the accepted items are pairwise non-duplicates: any two stored
\* fingerprints are more than simhash_threshold bits apart and any two stored
\* vectors have a cosine similarity below embedding_threshold; the stores
\* hold the items of the calls that returned False and no others, so a chunk
\* is never compared against a rejected item.
C28_AcceptedPairwiseDistinct ==
    /\ \A i, j \in 1..Len(seen_simhashes) :
           i < j => distance(seen_simhashes[i], seen_simhashes[j])
                        > simhash_threshold
    /\ \A i, j \in 1..Len(seen_embeddings) :
           i < j => CosineBelowThreshold(seen_embeddings[i], seen_embeddings[j])
    /\ (dedup_strategy = "simhash" /\ SIMHASH_AVAILABLE) =>
           seen_simhashes = FingerprintsBefore(Len(calls) + 1)
    /\ dedup_strategy = "embedding" =>
           seen_embeddings = AcceptedBefore(Len(calls) + 1)

-----------------------------------------------------------------------------
(* Claims about the TextSplitter *)

\* the configuration the specification asks for
ValidConfig == chunk_size > 0 /\ 0 <= chunk_overlap /\ chunk_overlap < chunk_size

\* the text of the document being split, and whether it has anything but
\* whitespace in it
SourceText == document_get_text(document)
OnlyWhitespace(text) == \A i \in 1..Len(text) : text[i] \in Whitespace

\* the texts of the chunks split returned
ChunkTexts == [i \in 1..Len(document_chunks) |-> document_chunks[i].text]

\* C3: the chunks returned by one split call carry chunk_index 0..N-1 in
\* output order, and chunk_total = N on every one of them.
C3_ChunkIndexEnumerates ==
    pc = "returned" =>
        \A i \in 1..Len(document_chunks) :
            /\ document_chunks[i].metadata.chunk_index = i - 1
            /\ document_chunks[i].metadata.chunk_total = Len(document_chunks)

\* C3 witness: a call that returned three chunks
C3_Witness == pc = "returned" /\ Len(document_chunks) = 3

\* C4: a splitter whose chunk_overlap is not below its chunk_size is refused
\* at construction, so no constructed splitter has such a configuration.
C4_OverlapRefusedAtConstruction ==
    pc # "new" => chunk_overlap < chunk_size

\* the work a call in progress has left: the pieces _hybrid_split has not
\* looked at yet, then the tokens from the start of the window onwards
Remaining ==
    Len(hybrid_todo) * (Len(SourceText) + 1)
        + (IF pc = "sliding" THEN Len(tokens) - start ELSE 0)

\* C5: with a valid configuration a call inside the sliding loop has cut at
\* most one window per token passed and still has a token to start from, a
\* call inside the piece loop still has a piece to look at, every pass of a
\* loop either returns or leaves less work, and the start of the window grows
\* on every pass of the sliding loop that does not end it: split terminates
\* with finitely many chunks under every strategy.
C5_SplitTerminates ==
    /\ []((ValidConfig /\ pc = "sliding")
             => (Len(chunks) <= start /\ start < Len(tokens)))
    /\ []((ValidConfig /\ pc = "hybrid") => hybrid_todo # << >>)
    /\ [][(ValidConfig /\ pc \in {"sliding", "hybrid"})
             => /\ (pc = "sliding" /\ pc' = "sliding")
                    => (start' > start /\ start' < Len(tokens'))
                /\ \/ pc' = "returned"
                   \/ /\ pc' \in {"sliding", "hybrid"}
                      /\ Remaining' >= 0
                      /\ Remaining' < Remaining]_vars

\* C5 witness: a hybrid call that went through the piece loop and two
\* passes of the sliding loop has returned
C5_Witness ==
    /\ ValidConfig
    /\ pc = "returned"
    /\ strategy = "hybrid"
    /\ Len(windows) >= 2

\* the windows C6 describes for n tokens: [k*step, min(k*step + s, n)) for
\* k = 0..K, K the first k whose window reaches token n
Step == chunk_size - chunk_overlap
LastWindow(n) ==
    CHOOSE k \in 0..n : /\ k * Step + chunk_size >= n
                        /\ \A j \in 0..(k - 1) : j * Step + chunk_size < n
ExpectedWindows(n) ==
    [k \in 1..(LastWindow(n) + 1) |->
        <<(k - 1) * Step, Min((k - 1) * Step + chunk_size, n)>>]

RECURSIVE Reassemble(_, _)
Reassemble(texts, first) ==
    IF texts = << >>
    THEN << >>
    ELSE LET toks == tokenize(Head(texts))
         IN  (IF first THEN toks ELSE py_slice(toks, chunk_overlap, Len(toks)))
             \o Reassemble(Tail(texts), FALSE)

\* C7: for sliding_token, dropping the first o tokens of every chunk after
\* the first and concatenating gives back the token sequence of the text.
C7_OverlapRemovedReconstructs ==
    (/\ pc = "returned"
     /\ strategy = "sliding_token"
     /\ ValidConfig
     /\ ~OnlyWhitespace(SourceText))
    => Reassemble(ChunkTexts, TRUE) = tokenize(SourceText)

\* C8: a text that is not blank and has fewer tokens than chunk_size comes
\* back as exactly one chunk, under every strategy.
C8_ShortTextOneChunk ==
    (/\ pc = "returned"
     /\ strategy \in SplitStrategies
     /\ ValidConfig
     /\ ~OnlyWhitespace(SourceText)
     /\ count_tokens(SourceText) < chunk_size)
    => Len(document_chunks) = 1

\* C9: under each of the four strategies a call with an empty or
\* whitespace-only text returns no chunk and raises nothing.
C9_BlankTextNoChunks ==
    (/\ pc \notin {"new", "ready"}
     /\ strategy \in SplitStrategies
     /\ OnlyWhitespace(SourceText))
    => (pc = "returned" /\ document_chunks = << >> /\ raised = "none")

\* C9 witness: a call with a text of two or more whitespace characters
C9_Witness ==
    /\ pc = "returned"
    /\ strategy \in SplitStrategies
    /\ Len(SourceText) >= 2
    /\ OnlyWhitespace(SourceText)

\* part occurs in text as a run of consecutive characters
IsSubstring(part, text) ==
    \E i \in 0..(Len(text) - Len(part)) :
        \A j \in 1..Len(part) : text[i + j] = part[j]

\* part is made of regions of text taken in the order of the text
RECURSIVE IsInOrder(_, _)
IsInOrder(part, text) ==
    IF part = << >> THEN TRUE
    ELSE IF text = << >> THEN FALSE
    ELSE IF Head(part) = Head(text) THEN IsInOrder(Tail(part), Tail(text))
    ELSE IsInOrder(part, Tail(text))

\* C10: under sliding_token, sentence and paragraph the text of every chunk
\* is a contiguous substring of the source text; under hybrid it is a
\* concatenation of source regions in source order.
C10_ChunkIsSourceSubstring ==
    (pc = "returned" /\ strategy \in SplitStrategies /\ ValidConfig)
    => \A i \in 1..Len(document_chunks) :
           IF strategy = "hybrid"
           THEN IsInOrder(document_chunks[i].text, SourceText)
           ELSE IsSubstring(document_chunks[i].text, SourceText)

\* the units packed into each chunk of a sentence or paragraph split
PackedUnits ==
    IF strategy = "sentence"
    THEN pack_units(sentences_of(SourceText), << >>, << >>, 0)
    ELSE pack_units(paragraphs_of(SourceText), << >>, << >>, 0)

\* the summed token count of the units of a group
RECURSIVE UnitTokens(_)
UnitTokens(group) ==
    IF group = << >> THEN 0
    ELSE count_tokens(Head(group)) + UnitTokens(Tail(group))

\* the text of the chunk packed from a group of sentences: every sentence
\* is followed by a space, but for the sentence that opens a chunk started
\* after a flush (line 111), and the whole is stripped
RECURSIVE SpaceAfterEach(_)
SpaceAfterEach(group) ==
    IF group = << >> THEN << >>
    ELSE Head(group) \o <<" ">> \o SpaceAfterEach(Tail(group))

SentenceChunkText(group, i) ==
    strip(IF i = 1 THEN SpaceAfterEach(group)
          ELSE Head(group) \o SpaceAfterEach(Tail(group)))

\* the text of the chunk packed from a group of paragraphs or of pieces:
\* they are joined by a blank line
RECURSIVE BlankLineJoined(_)
BlankLineJoined(group) ==
    IF Len(group) <= 1 THEN join(group)
    ELSE Head(group) \o <<NL, NL>> \o BlankLineJoined(Tail(group))

\* C11: under sentence and paragraph the chunks are the packed groups of
\* units, in order; a chunk packed from two or more units has a summed unit
\* token count of at most chunk_size, and a chunk whose units sum to more
\* than chunk_size is one single unit that is itself over chunk_size.
C11_PackedWithinBudget ==
    (pc = "returned" /\ strategy \in {"sentence", "paragraph"})
    => /\ Len(document_chunks) = Len(PackedUnits)
       /\ \A i \in 1..Len(PackedUnits) :
             LET group == PackedUnits[i]
             IN  /\ ChunkTexts[i] =
                        IF strategy = "sentence"
                        THEN SentenceChunkText(group, i)
                        ELSE strip(BlankLineJoined(group))
                 /\ Len(group) >= 2 => UnitTokens(group) <= chunk_size
                 /\ UnitTokens(group) > chunk_size
                        => (Len(group) = 1
                            /\ count_tokens(group[1]) > chunk_size)

\* C11 witness: a paragraph split that returned a chunk packed from two
\* units that fill chunk_size exactly
C11_Witness ==
    /\ pc = "returned"
    /\ strategy = "paragraph"
    /\ \E i \in 1..Len(PackedUnits) :
          /\ Len(PackedUnits[i]) >= 2
          /\ UnitTokens(PackedUnits[i]) = chunk_size

\* the pieces merged into each chunk of a hybrid split that has returned
MergedPieces == merge_pieces(hybrid_chunks, << >>, << >>, 0)

\* C12: under hybrid with 0 <= chunk_overlap < chunk_size the chunks are the
\* merged groups of pieces, in order, and the token counts of the pieces of
\* every chunk sum to at most chunk_size, for every text.
C12_HybridWithinBudget ==
    (pc = "returned" /\ strategy = "hybrid" /\ ValidConfig)
    => /\ Len(document_chunks) = Len(MergedPieces)
       /\ \A i \in 1..Len(MergedPieces) :
             /\ ChunkTexts[i] = BlankLineJoined(MergedPieces[i])
             /\ UnitTokens(MergedPieces[i]) <= chunk_size

\* C12 witness: a hybrid split of a text with a sentence over chunk_size,
\* which the sliding loop cut into windows, has returned several chunks
C12_Witness ==
    /\ pc = "returned"
    /\ strategy = "hybrid"
    /\ ValidConfig
    /\ Len(windows) >= 2
    /\ Len(MergedPieces) >= 2
    /\ \E i \in 1..Len(MergedPieces) :
          UnitTokens(MergedPieces[i]) = chunk_size

\* C13: a splitter configured with a strategy name outside the four known
\* ones fails at construction or on its first split call, whatever the
\* document: once the first call is under way the splitter has raised.
C13_UnknownStrategyRaises ==
    (strategy \notin SplitStrategies /\ pc \notin {"new", "ready"})
    => (pc = "raised" /\ raised = "ValueError")

\* the units of the groups, in the order of the groups
RECURSIVE Flatten(_)
Flatten(groups) ==
    IF groups = << >> THEN << >> ELSE Head(groups) \o Flatten(Tail(groups))

\* C29: the packing of sentence and paragraph and the final merge of hybrid
\* neither drop, duplicate nor reorder units: the chunks are the texts of
\* the packed groups, in order, the units of the groups read in order are
\* exactly the non-empty units of the text (for hybrid, the pieces handed to
\* the merge), and no chunk is empty.
C29_PackingKeepsUnits ==
    pc = "returned" =>
        /\ strategy \in {"sentence", "paragraph"} =>
              /\ Flatten(PackedUnits) =
                     IF strategy = "sentence" THEN sentences_of(SourceText)
                     ELSE paragraphs_of(SourceText)
              /\ Len(document_chunks) = Len(PackedUnits)
              /\ \A i \in 1..Len(PackedUnits) :
                     /\ PackedUnits[i] # << >>
                     /\ ChunkTexts[i] # << >>
                     /\ ChunkTexts[i] =
                            IF strategy = "sentence"
                            THEN SentenceChunkText(PackedUnits[i], i)
                            ELSE strip(BlankLineJoined(PackedUnits[i]))
        /\ strategy = "hybrid" =>
              /\ Flatten(MergedPieces) = hybrid_chunks
              /\ Len(document_chunks) = Len(MergedPieces)
              /\ \A i \in 1..Len(MergedPieces) :
                     /\ MergedPieces[i] # << >>
                     /\ ChunkTexts[i] # << >>
                     /\ ChunkTexts[i] = BlankLineJoined(MergedPieces[i])

\* C29 witness: a paragraph split of three paragraphs that returned two
\* chunks, the first packed from two paragraphs
C29_Witness ==
    /\ pc = "returned"
    /\ strategy = "paragraph"
    /\ Len(paragraphs_of(SourceText)) = 3
    /\ Len(PackedUnits) = 2
    /\ Len(PackedUnits[1]) = 2

\* the units of a group joined by single spaces
RECURSIVE SpaceJoined(_)
SpaceJoined(group) ==
    IF Len(group) <= 1 THEN join(group)
    ELSE Head(group) \o <<" ">> \o SpaceJoined(Tail(group))

\* C30: under sentence the text of every chunk is the sentences packed into
\* it joined by single spaces, in the first chunk and in the chunks started
\* after a flush alike.
C30_SentencesJoinedBySpaces ==
    (pc = "returned" /\ strategy = "sentence")
    => /\ Len(document_chunks) = Len(PackedUnits)
       /\ \A i \in 1..Len(PackedUnits) :
              ChunkTexts[i] = SpaceJoined(PackedUnits[i])

-----------------------------------------------------------------------------
(* Claims about the Reranker *)

\* the configuration the specification asks for: a known mode and both
\* weights
ValidRerankerConfig ==
    /\ {"mode", "weights"} \subseteq DOMAIN config
    /\ config.mode \in RerankModes
    /\ {"ann", "bm25"} \subseteq DOMAIN config.weights

\* C14: a Reranker whose configuration has an unknown mode or lacks a weight
\* is refused at construction (as is a Deduplicator with an unknown strategy
\* or without a threshold): no instance with such a configuration exists,
\* and none answers a rerank call.
C14_BadConfigRefusedAtConstruction ==
    ~ValidRerankerConfig => rerank_pc \in {"new", "unconstructed"}

\* a candidate as it was handed in: without the keys rerank adds
Original(c) == [k \in DOMAIN c \ {"bm25_score", "final_score"} |-> c[k]]

\* the number of times candidate c occurs in list
Occurrences(list, c) == Cardinality({i \in 1..Len(list) : list[i] = c})

\* C19: a rerank call on a Reranker of a known mode returns; what it
\* returns is the input candidates, each once, each with a final_score, in
\* an order in which final_score does not increase; for no candidates it
\* returns the empty list.
C19_RerankReturnsCandidatesSorted ==
    (rerank_pc \in {"returned", "raised"} /\ mode \in RerankModes)
    => /\ rerank_pc = "returned"
       /\ Len(reranked) = Len(candidates)
       /\ \A c \in Candidates :
             Occurrences([i \in 1..Len(reranked) |-> Original(reranked[i])], c)
                 = Occurrences(candidates, c)
       /\ \A i \in 1..Len(reranked) : "final_score" \in DOMAIN reranked[i]
       /\ \A i \in 1..(Len(reranked) - 1) :
             reranked[i].final_score >= reranked[i + 1].final_score
       /\ candidates = << >> => reranked = << >>

\* the lexical scores of the candidates of the call that returned
LexicalScores == {reranked[i].bm25_score : i \in 1..Len(reranked)}
LexicalMax == CHOOSE x \in LexicalScores : \A y \in LexicalScores : y <= x
LexicalMin == CHOOSE x \in LexicalScores : \A y \in LexicalScores : x <= y

\* the min-max normalisation of the lexical score of candidate c over the
\* candidate set, in thousandths: 0 when all lexical scores are equal
NormalizedLexical(c) ==
    IF LexicalMax = LexicalMin THEN 0
    ELSE ((c.bm25_score - LexicalMin) * 1000) \div (LexicalMax - LexicalMin)

\* the similarity value of candidate c, 0 for a candidate that has none
AnnScore(c) == IF "distance" \in DOMAIN c THEN c.distance ELSE 0

\* C20: in mixed mode with both weights configured, every candidate's
\* final_score is w_ann * ann_score + w_lexical * normalized_lexical, the
\* normalised lexical score lies in [0, 1] and is 0 for all candidates when
\* the lexical scores are tied; with tied lexical scores and weights 0.7 and
\* 0.3 a candidate with ann_score 0.9 comes before one with 0.5.
C20_MixedFinalScore ==
    (/\ rerank_pc = "returned"
     /\ mode = "embedding_bm25_mixed"
     /\ {"ann", "bm25"} \subseteq DOMAIN weights)
    => /\ \A i \in 1..Len(reranked) :
             LET c == reranked[i]
             IN  /\ NormalizedLexical(c) >= 0
                 /\ NormalizedLexical(c) <= 1000
                 /\ c.final_score = weights.ann * AnnScore(c) * 100
                                        + weights.bm25 * NormalizedLexical(c)
       /\ (/\ reranked # << >>
           /\ weights = [ann |-> 7, bm25 |-> 3]
           /\ LexicalMax = LexicalMin)
             => \A i, j \in 1..Len(reranked) :
                    (AnnScore(reranked[i]) = 9 /\ AnnScore(reranked[j]) = 5)
                        => i < j

\* C20 witness: the scenario, with the candidate of ann_score 0.5 handed in
\* first: two candidates of the same content, weights 0.7 and 0.3
C20_Witness ==
    /\ rerank_pc = "returned"
    /\ mode = "embedding_bm25_mixed"
    /\ weights = [ann |-> 7, bm25 |-> 3]
    /\ query = <<"ai">>
    /\ candidates = <<[content |-> <<"ai", "ml">>, distance |-> 5],
                      [content |-> <<"ai", "ml">>, distance |-> 9]>>
    /\ reranked[1].distance = 9
    /\ reranked[1].final_score = 6300
    /\ reranked[2].final_score = 3500

-----------------------------------------------------------------------------
(* Ingestion: RAGEngine.ingest (main.py) and upload_file (backend/main.py). *)
(* Both run, for each document, split, the is_duplicate loop, embed and     *)
(* insert, on one Deduplicator that lives as long as the instance.  A       *)
(* document is given by the chunks split (and process_chunks) makes of it.  *)

\* ingestion calls made on one instance
MaxIngests == 2

\* documents handed to one ingestion call
MaxDocuments == 2

\* chunks of one document
MaxChunks == 2

\* the chunks of the documents: two texts with different md5 digests and
\* fingerprints 3 bits apart
IngestChunks == {[domain |-> "test", text |-> t] :
                    t \in {fox, "the quick brown fox z"}}

\* what embed and insert can do
EmbedOutcomes == {"returns", "RuntimeError"}
InsertOutcomes == {"returns", "MilvusException"}

\* mutant: every chunk is kept, whatever is_duplicate answered
keep_unless_duplicate_all(valid, chunk, result) == Append(valid, chunk)

\* if not self.deduplicator.is_duplicate(chunk): valid_chunks.append(chunk)
keep_unless_duplicate(valid, chunk, result) ==
    IF result = "False" THEN Append(valid, chunk) ELSE valid

\* chunk_texts = [chunk['text'] for chunk in valid_chunks]
chunk_texts(valid) == [i \in 1..Len(valid) |-> valid[i].text]

\* the vector the embedding service makes of a text
vector_of(text) == <<"vector of", text>>

\* the rows MilvusClient.insert makes of documents and embeddings
rows_of(documents, embeddings) ==
    [i \in 1..Len(documents) |->
        [domain |-> documents[i].domain,
         content |-> doc_get_text(documents[i]),
         embedding |-> embeddings[i]]]

IngestInit ==
    /\ ingest_pc = "idle"
    /\ ingest_calls = 0
    /\ docs_left = 0
    /\ doc_chunks = << >>
    /\ chunk_i = 1
    /\ judged = << >>
    /\ valid_chunks = << >>
    /\ embed_args = None
    /\ chunk_embeddings = << >>
    /\ collection = << >>
    /\ ingest_raised = "none"

\* an exception leaves the for loop and the call: there is no try around the
\* body of the loop (upload_file turns it into an HTTP 500 response)
IngestRaise(exc) ==
    /\ ingest_pc' = "idle"
    /\ ingest_raised' = exc

\* ingest(documents) is called with n documents
Ingest(n) ==
    /\ ingest_pc = "idle"
    /\ ingest_calls < MaxIngests
    /\ ingest_calls' = ingest_calls + 1
    /\ ingest_pc' = "document"
    /\ docs_left' = n
    /\ ingest_raised' = "none"
    /\ UNCHANGED <<doc_chunks, chunk_i, judged, valid_chunks, embed_args,
                   chunk_embeddings, collection>>
    /\ UNCHANGED <<dedup_vars, split_vars, rerank_vars>>
    /\ UNCHANGED <<embed_vars, query_vars, thread_vars>>

\* for document in documents: the list is exhausted, the call returns
IngestReturn ==
    /\ ingest_pc = "document"
    /\ docs_left = 0
    /\ ingest_pc' = "idle"
    /\ UNCHANGED <<ingest_calls, docs_left, doc_chunks, chunk_i, judged,
                   valid_chunks, embed_args, chunk_embeddings, collection,
                   ingest_raised>>
    /\ UNCHANGED <<dedup_vars, split_vars, rerank_vars>>
    /\ UNCHANGED <<embed_vars, query_vars, thread_vars>>

\* the next document: chunks = split(document); valid_chunks = []
SplitDocument(document_chunks_) ==
    /\ ingest_pc = "document"
    /\ docs_left > 0
    /\ doc_chunks' = document_chunks_
    /\ chunk_i' = 1
    /\ judged' = << >>
    /\ valid_chunks' = << >>
    /\ embed_args' = None
    /\ chunk_embeddings' = << >>
    /\ ingest_pc' = "dedup"
    /\ UNCHANGED <<ingest_calls, docs_left, collection, ingest_raised>>
    /\ UNCHANGED <<dedup_vars, split_vars, rerank_vars>>
    /\ UNCHANGED <<embed_vars, query_vars, thread_vars>>

\* one iteration of for chunk in chunks; is_duplicate is called without a
\* vector
DedupChunk ==
    /\ ingest_pc = "dedup"
    /\ chunk_i <= Len(doc_chunks)
    /\ LET chunk == doc_chunks[chunk_i]
           out == is_duplicate(chunk, None)
       IN  /\ seen_md5s' = out.seen_md5s
           /\ seen_simhashes' = out.seen_simhashes
           /\ seen_embeddings' = out.seen_embeddings
           /\ IF out.result \in {"True", "False"}
              THEN /\ judged' = Append(judged, out.result)
                   /\ valid_chunks' =
                          keep_unless_duplicate(valid_chunks, chunk, out.result)
                   /\ chunk_i' = chunk_i + 1
                   /\ UNCHANGED <<ingest_pc, ingest_raised>>
              ELSE /\ IngestRaise(out.result)
                   /\ UNCHANGED <<judged, valid_chunks, chunk_i>>
    /\ UNCHANGED <<ingest_calls, docs_left, doc_chunks, embed_args,
                   chunk_embeddings, collection>>
    /\ UNCHANGED <<SIMHASH_AVAILABLE, dedup_strategy, calls>>
    /\ UNCHANGED <<split_vars, rerank_vars>>
    /\ UNCHANGED <<embed_vars, query_vars, thread_vars>>

\* if not valid_chunks: continue
SkipDocument ==
    /\ ingest_pc = "dedup"
    /\ chunk_i > Len(doc_chunks)
    /\ valid_chunks = << >>
    /\ ingest_pc' = "document"
    /\ docs_left' = docs_left - 1
    /\ UNCHANGED <<ingest_calls, doc_chunks, chunk_i, judged, valid_chunks,
                   embed_args, chunk_embeddings, collection, ingest_raised>>
    /\ UNCHANGED <<dedup_vars, split_vars, rerank_vars>>
    /\ UNCHANGED <<embed_vars, query_vars, thread_vars>>

\* embeddings = self.embedder.embed(chunk_texts)
EmbedChunks(outcome) ==
    /\ ingest_pc = "dedup"
    /\ chunk_i > Len(doc_chunks)
    /\ valid_chunks # << >>
    /\ embed_args' = Some(chunk_texts(valid_chunks))
    /\ IF outcome = "returns"
       THEN /\ chunk_embeddings' =
                   [i \in 1..Len(valid_chunks) |-> vector_of(valid_chunks[i].text)]
            /\ ingest_pc' = "insert"
            /\ UNCHANGED ingest_raised
       ELSE /\ IngestRaise(outcome)
            /\ UNCHANGED chunk_embeddings
    /\ UNCHANGED <<ingest_calls, docs_left, doc_chunks, chunk_i, judged,
                   valid_chunks, collection>>
    /\ UNCHANGED <<dedup_vars, split_vars, rerank_vars>>
    /\ UNCHANGED <<embed_vars, query_vars, thread_vars>>

\* self.milvus_client.insert(valid_chunks, embeddings), then the next
\* document
InsertChunks(outcome) ==
    /\ ingest_pc = "insert"
    /\ IF Len(valid_chunks) # Len(chunk_embeddings)
       THEN /\ IngestRaise("ValueError")
            /\ UNCHANGED <<collection, docs_left>>
       ELSE IF outcome = "returns"
       THEN /\ collection' = collection \o rows_of(valid_chunks, chunk_embeddings)
            /\ ingest_pc' = "document"
            /\ docs_left' = docs_left - 1
            /\ UNCHANGED ingest_raised
       ELSE /\ IngestRaise(outcome)
            /\ UNCHANGED <<collection, docs_left>>
    /\ UNCHANGED <<ingest_calls, doc_chunks, chunk_i, judged, valid_chunks,
                   embed_args, chunk_embeddings>>
    /\ UNCHANGED <<dedup_vars, split_vars, rerank_vars>>
    /\ UNCHANGED <<embed_vars, query_vars, thread_vars>>

IngestNext ==
    \/ \E n \in 0..MaxDocuments : Ingest(n)
    \/ IngestReturn
    \/ \E cs \in UNION {[1..n -> IngestChunks] : n \in 0..MaxChunks} :
          SplitDocument(cs)
    \/ DedupChunk
    \/ SkipDocument
    \/ \E outcome \in EmbedOutcomes : EmbedChunks(outcome)
    \/ \E outcome \in InsertOutcomes : InsertChunks(outcome)

-----------------------------------------------------------------------------
(* BairenEmbedder (embeddings/bairen_embedder.py).  The embedding service  *)
(* is the collaborator: for a batch it answers one item per text, each     *)
(* with the index of its text, in an order of its own, or it fails.        *)

\* the largest max_retries an embedder is configured with
MaxRetries == 2

\* texts handed to one embed call
MaxTexts == 3

\* config['embedding']['batch_size']
BatchSizes == {1, 2}

\* the texts handed to embed
EmbedTexts == {"alpha", "beta", "gamma"}

\* the vector the service makes of a text; one of them is the null vector
service_embedding(text) ==
    CASE text = "alpha" -> <<3, 4>>
      [] text = "beta" -> <<0, 0>>
      [] text = "gamma" -> <<0, 5>>

\* the ways _embed_batch fails: requests.post raises, or the answer is not
\* a 200 with output.embeddings
BatchFailures == {"ConnectionError", "RuntimeError"}

\* the orders the service can answer a batch of n texts in
Orders(n) == {p \in [1..n -> 1..n] : \A i, j \in 1..n : p[i] = p[j] => i = j}

\* result["output"]["embeddings"] when the service answers in order p
response(batch_texts, p) ==
    [k \in 1..Len(batch_texts) |->
        [index |-> p[k] - 1,
         embedding |-> service_embedding(batch_texts[p[k]])]]

\* mutant: the items are taken in the order of the answer
embed_batch_unsorted(items) == [k \in 1..Len(items) |-> items[k].embedding]

\* _embed_batch, lines 121-123: sorted by index, then the embeddings
embed_batch(items) ==
    LET embeddings_data ==
            [k \in 1..Len(items) |->
                items[CHOOSE j \in 1..Len(items) :
                        Cardinality({i \in 1..Len(items) :
                            \/ items[i].index < items[j].index
                            \/ items[i].index = items[j].index /\ i < j})
                        = k - 1]]
    IN  [k \in 1..Len(items) |-> embeddings_data[k].embedding]

\* _l2_normalize, in thousandths; a vector of norm 0 is returned as it is
l2_normalize(embedding) ==
    LET norm == isqrt(norm2(embedding))
    IN  IF norm = 0 THEN embedding
        ELSE [i \in 1..Len(embedding) |-> (1000 * embedding[i]) \div norm]

\* 2 ** attempt
RECURSIVE pow2(_)
pow2(n) == IF n = 0 THEN 1 ELSE 2 * pow2(n - 1)

\* texts[i:i+self.batch_size]
batch_of(all_texts, i, size) ==
    SubSeq(all_texts, i + 1,
           IF i + size < Len(all_texts) THEN i + size ELSE Len(all_texts))

\* the entry of batch_log for the batch in progress, with one more attempt
logged(order, failure, wait) ==
    LET b == batch_log[Len(batch_log)]
    IN  [batch_log EXCEPT ![Len(batch_log)] =
            [b EXCEPT !.attempts = b.attempts + 1,
                      !.orders = IF order = << >> THEN @ ELSE Append(@, order),
                      !.failures = IF failure = "none" THEN @
                                   ELSE Append(@, failure),
                      !.sleeps = IF wait = 0 THEN @ ELSE Append(@, wait)]]

never_reached == "RuntimeError: Unexpected error in retry loop"

EmbedInit ==
    /\ max_retries \in 0..MaxRetries
    /\ batch_size \in BatchSizes
    /\ embed_pc = "idle"
    /\ embed_texts = << >>
    /\ batch_start = 0
    /\ attempt = 0
    /\ all_embeddings = << >>
    /\ batch_log = << >>
    /\ embed_returned = << >>
    /\ embed_raised = "none"

\* embed(texts): all_embeddings = []
Embed(ts) ==
    /\ embed_pc = "idle"
    /\ embed_texts' = ts
    /\ batch_start' = 0
    /\ all_embeddings' = << >>
    /\ embed_pc' = "batch"
    /\ UNCHANGED <<max_retries, batch_size, attempt, batch_log,
                   embed_returned, embed_raised>>
    /\ UNCHANGED <<dedup_vars, split_vars, rerank_vars>>
    /\ UNCHANGED <<ingest_vars, query_vars, thread_vars>>

\* for i in range(0, len(texts), batch_size): the next batch enters
\* _embed_batch_with_retry
StartBatch ==
    /\ embed_pc = "batch"
    /\ batch_start < Len(embed_texts)
    /\ attempt' = 0
    /\ batch_log' = Append(batch_log,
                           [start |-> batch_start, attempts |-> 0,
                            orders |-> << >>, failures |-> << >>,
                            sleeps |-> << >>])
    /\ embed_pc' = "attempt"
    /\ UNCHANGED <<max_retries, batch_size, embed_texts, batch_start,
                   all_embeddings, embed_returned, embed_raised>>
    /\ UNCHANGED <<dedup_vars, split_vars, rerank_vars>>
    /\ UNCHANGED <<ingest_vars, query_vars, thread_vars>>

\* an iteration of for attempt in range(max_retries) in which _embed_batch
\* returns: all_embeddings.extend(embeddings), then the next i
AttemptReturns(order) ==
    /\ embed_pc = "attempt"
    /\ attempt < max_retries
    /\ LET batch_texts == batch_of(embed_texts, batch_start, batch_size)
       IN  /\ order \in Orders(Len(batch_texts))
           /\ all_embeddings' =
                  all_embeddings \o embed_batch(response(batch_texts, order))
    /\ batch_log' = logged(order, "none", 0)
    /\ batch_start' = batch_start + batch_size
    /\ embed_pc' = "batch"
    /\ UNCHANGED <<max_retries, batch_size, embed_texts, attempt,
                   embed_returned, embed_raised>>
    /\ UNCHANGED <<dedup_vars, split_vars, rerank_vars>>
    /\ UNCHANGED <<ingest_vars, query_vars, thread_vars>>

\* an iteration in which _embed_batch raises: the last attempt re-raises,
\* an earlier one sleeps 2 ** attempt seconds
AttemptRaises(exc) ==
    /\ embed_pc = "attempt"
    /\ attempt < max_retries
    /\ IF attempt = max_retries - 1
       THEN /\ batch_log' = logged(<< >>, exc, 0)
            /\ embed_raised' = exc
            /\ embed_pc' = "raised"
            /\ UNCHANGED attempt
       ELSE /\ batch_log' = logged(<< >>, exc, pow2(attempt))
            /\ attempt' = attempt + 1
            /\ UNCHANGED <<embed_raised, embed_pc>>
    /\ UNCHANGED <<max_retries, batch_size, embed_texts, batch_start,
                   all_embeddings, embed_returned>>
    /\ UNCHANGED <<dedup_vars, split_vars, rerank_vars>>
    /\ UNCHANGED <<ingest_vars, query_vars, thread_vars>>

\* range(max_retries) is exhausted: the statement after the loop
RetryLoopExit ==
    /\ embed_pc = "attempt"
    /\ attempt >= max_retries
    /\ embed_raised' = never_reached
    /\ embed_pc' = "raised"
    /\ UNCHANGED <<max_retries, batch_size, embed_texts, batch_start, attempt,
                   all_embeddings, batch_log, embed_returned>>
    /\ UNCHANGED <<dedup_vars, split_vars, rerank_vars>>
    /\ UNCHANGED <<ingest_vars, query_vars, thread_vars>>

\* the batches are done: every vector is normalised and the list returned
EmbedReturn ==
    /\ embed_pc = "batch"
    /\ batch_start >= Len(embed_texts)
    /\ embed_returned' = [i \in 1..Len(all_embeddings) |->
                             l2_normalize(all_embeddings[i])]
    /\ embed_pc' = "returned"
    /\ UNCHANGED <<max_retries, batch_size, embed_texts, batch_start, attempt,
                   all_embeddings, batch_log, embed_raised>>
    /\ UNCHANGED <<dedup_vars, split_vars, rerank_vars>>
    /\ UNCHANGED <<ingest_vars, query_vars, thread_vars>>

EmbedNext ==
    \/ \E ts \in UNION {[1..n -> EmbedTexts] : n \in 0..MaxTexts} : Embed(ts)
    \/ StartBatch
    \/ \E order \in UNION {Orders(n) : n \in BatchSizes} : AttemptReturns(order)
    \/ \E exc \in BatchFailures : AttemptRaises(exc)
    \/ RetryLoopExit
    \/ EmbedReturn

-----------------------------------------------------------------------------
(* Query flow of the backend (backend/main.py query_documents): the hits   *)
(* of MilvusClient.search are formatted by                                  *)
(* Searcher.format_results_for_reranking and handed to Reranker.rerank.     *)

\* the hits MilvusClient.search returns: distance is the similarity, in
\* tenths
SearchHits == {[id |-> 1, distance |-> d, domain |-> "test", content |-> c,
                source |-> "file", timestamp |-> 0, metadata |-> << >>] :
                  c \in Contents, d \in {5, 9}}

\* Searcher.format_results_for_reranking
format_results_for_reranking(results) ==
    [i \in 1..Len(results) |->
        [content |-> dict_get(results[i], "content", << >>),
         domain |-> dict_get(results[i], "domain", ""),
         metadata |-> dict_get(results[i], "metadata", << >>),
         score |-> dict_get(results[i], "distance", 0),
         source |-> dict_get(results[i], "source", ""),
         timestamp |-> dict_get(results[i], "timestamp", 0)]]

\* query_documents, for a query q whose search returned hits
QueryDocuments(q, hits) ==
    /\ rerank_pc = "ready"
    /\ query' = q
    /\ search_results' = hits
    /\ candidates' = format_results_for_reranking(hits)
    /\ LET result == rerank(q, format_results_for_reranking(hits))
       IN  /\ rerank_pc' = IF result.raised # "none" THEN "raised"
                           ELSE "returned"
           /\ rerank_raised' = result.raised
           /\ reranked' = result.list
    /\ UNCHANGED <<config, mode, weights>>
    /\ UNCHANGED <<dedup_vars, split_vars>>
    /\ UNCHANGED <<ingest_vars, embed_vars, thread_vars>>

QueryNext ==
    \/ RerankerConstruct
    \/ \E q \in Queries,
          hits \in UNION {[1..n -> SearchHits] : n \in 0..MaxCandidates} :
              QueryDocuments(q, hits)

-----------------------------------------------------------------------------
(* Two ingestion calls on one Deduplicator, each inside                     *)
(* _is_md5_duplicate on a thread of its own.  The method takes no lock: the *)
(* membership test and the add are two steps, and the other thread may run  *)
(* between them.                                                            *)

Threads == {"first", "second"}

\* mutant: the test also sees the digests the other calls are about to add
md5_hash_seen_or_pending(md5_hash) ==
    \/ md5_hash \in seen_md5s
    \/ \E t \in Threads :
           /\ thread_pc[t] = "record"
           /\ md5_hexdigest(doc_get_text(thread_doc[t])) = md5_hash

\* md5_hash in self.seen_md5s
md5_hash_seen(md5_hash) == md5_hash \in seen_md5s

ThreadInit ==
    /\ SIMHASH_AVAILABLE = TRUE
    /\ dedup_strategy = "md5"
    /\ seen_md5s = {}
    /\ seen_simhashes = << >>
    /\ seen_embeddings = << >>
    /\ calls = << >>
    /\ thread_pc = [t \in Threads |-> "idle"]
    /\ thread_doc = [t \in Threads |-> [domain |-> "test"]]
    /\ thread_result = [t \in Threads |-> "none"]

\* thread t enters _is_md5_duplicate(doc): text and md5_hash are computed
ThreadCall(t, doc) ==
    /\ thread_pc[t] \in {"idle", "done"}
    /\ thread_pc' = [thread_pc EXCEPT ![t] = "check"]
    /\ thread_doc' = [thread_doc EXCEPT ![t] = doc]
    /\ thread_result' = [thread_result EXCEPT ![t] = "none"]
    /\ UNCHANGED <<dedup_vars, split_vars, rerank_vars>>
    /\ UNCHANGED <<ingest_vars, embed_vars, query_vars>>

\* if md5_hash in self.seen_md5s: return True
ThreadCheck(t) ==
    /\ thread_pc[t] = "check"
    /\ IF md5_hash_seen(md5_hexdigest(doc_get_text(thread_doc[t])))
       THEN /\ thread_pc' = [thread_pc EXCEPT ![t] = "done"]
            /\ thread_result' = [thread_result EXCEPT ![t] = "True"]
       ELSE /\ thread_pc' = [thread_pc EXCEPT ![t] = "record"]
            /\ UNCHANGED thread_result
    /\ UNCHANGED thread_doc
    /\ UNCHANGED <<dedup_vars, split_vars, rerank_vars>>
    /\ UNCHANGED <<ingest_vars, embed_vars, query_vars>>

\* self.seen_md5s.add(md5_hash); return False
ThreadRecord(t) ==
    /\ thread_pc[t] = "record"
    /\ seen_md5s' = seen_md5s \cup {md5_hexdigest(doc_get_text(thread_doc[t]))}
    /\ thread_pc' = [thread_pc EXCEPT ![t] = "done"]
    /\ thread_result' = [thread_result EXCEPT ![t] = "False"]
    /\ UNCHANGED thread_doc
    /\ UNCHANGED <<SIMHASH_AVAILABLE, dedup_strategy, seen_simhashes,
                   seen_embeddings, calls>>
    /\ UNCHANGED <<split_vars, rerank_vars>>
    /\ UNCHANGED <<ingest_vars, embed_vars, query_vars>>

ThreadNext ==
    \E t \in Threads :
        \/ \E doc \in Docs : ThreadCall(t, doc)
        \/ ThreadCheck(t)
        \/ ThreadRecord(t)

-----------------------------------------------------------------------------
(* Claims about the ingestion *)

\* the texts of the chunks of the document in progress that is_duplicate
\* answered False for, in the order of the chunks
RECURSIVE NonDuplicateTextsUpTo(_)
NonDuplicateTextsUpTo(n) ==
    IF n = 0 THEN << >>
    ELSE IF judged[n] = "False"
         THEN Append(NonDuplicateTextsUpTo(n - 1), doc_chunks[n].text)
         ELSE NonDuplicateTextsUpTo(n - 1)
NonDuplicateTexts == NonDuplicateTextsUpTo(Len(judged))

\* the step invokes embed
EmbedInvoked == embed_args' # None /\ embed_args = None

\* the step inserts rows
RowsInserted == collection' # collection

\* C21: embed is invoked for a document only once is_duplicate has answered
\* for every chunk of the document, and with exactly the texts of the chunks
\* it answered False for; the rows inserted for the document are the rows of
\* those texts, so a chunk judged duplicate is neither embedded nor stored.
C21_EmbedOnlyNonDuplicates ==
    [][/\ EmbedInvoked =>
            /\ Len(judged) = Len(doc_chunks)
            /\ embed_args' = Some(NonDuplicateTexts)
       /\ RowsInserted =>
            /\ embed_args = Some(NonDuplicateTexts)
            /\ Len(collection') = Len(collection) + Len(NonDuplicateTexts)
            /\ \A i \in 1..Len(NonDuplicateTexts) :
                   collection'[Len(collection) + i].content
                       = NonDuplicateTexts[i]
            /\ \A i \in 1..Len(collection) : collection'[i] = collection[i]
      ]_vars

\* a document with a duplicate chunk and a new one has been embedded and
\* stored: one text went to embed, one row was added
C21_Witness ==
    /\ ingest_pc = "document"
    /\ Len(doc_chunks) = 2
    /\ judged = <<"True", "False">>
    /\ embed_args = Some(<<doc_chunks[2].text>>)
    /\ Len(collection) = 2
    /\ collection[2].content = doc_chunks[2].text

\* the step is the failure of is_duplicate, embed or insert
IngestFailure == ingest_raised = "none" /\ ingest_raised' # "none"

\* C24: a failure of is_duplicate or embed while one document is processed
\* leaves the rows stored so far in the collection and gives up that
\* document only: when documents follow it in the call, the call goes on
\* with the next one.
C24_FailureAbortsOnlyDocument ==
    [][IngestFailure =>
          /\ collection' = collection
          /\ docs_left > 1 =>
                /\ ingest_pc' = "document"
                /\ docs_left' = docs_left - 1
      ]_vars

\* the texts of the rows of the collection
StoredTexts == {collection[i].content : i \in 1..Len(collection)}

\* C27: between ingestion calls, whatever calls failed, every text the
\* Deduplicator has recorded (its md5 digest or its fingerprint) is the text
\* of a row of the collection, so content whose ingestion failed is not
\* taken for a duplicate when it is ingested again.
C27_RecordedTextsAreStored ==
    ingest_pc = "idle" =>
        /\ \A h \in seen_md5s :
               \E t \in StoredTexts : md5_hexdigest(t) = h
        /\ \A j \in 1..Len(seen_simhashes) :
               \E t \in StoredTexts : Simhash(t) = seen_simhashes[j]

-----------------------------------------------------------------------------
(* Claims about the BairenEmbedder *)

\* C22: the list embed returns has one vector per text, and its i-th vector
\* is the normalised vector of the i-th text, whatever the batch size and
\* whatever order the service answered each batch in.
C22_EmbedKeepsInputOrder ==
    embed_pc = "returned" =>
        /\ Len(embed_returned) = Len(embed_texts)
        /\ \A i \in 1..Len(embed_texts) :
               embed_returned[i]
                   = l2_normalize(service_embedding(embed_texts[i]))

\* three different texts in two batches, the first batch answered last item
\* first
C22_Witness ==
    /\ embed_pc = "returned"
    /\ embed_texts = <<"alpha", "beta", "gamma">>
    /\ batch_size = 2
    /\ Len(batch_log) = 2
    /\ batch_log[1].orders = <<(<<2, 1>>)>>
    /\ embed_returned = <<(<<600, 800>>), <<0, 0>>, <<0, 1000>>>>

\* the batches whose _embed_batch_with_retry call is over
FinishedBatches ==
    IF embed_pc = "attempt" THEN 1..(Len(batch_log) - 1)
    ELSE 1..Len(batch_log)

\* C23: whatever max_retries is configured, every batch is attempted at
\* least once and at most max_retries times; the wait after the k-th failed
\* attempt, when attempts remain, is 2^(k-1) seconds; when every attempt
\* failed the last failure leaves embed and nothing is returned, and a
\* success within the budget yields the vectors of the batch; the statement
\* after the retry loop is never executed.
C23_RetryWithinBudget ==
    /\ \A b \in FinishedBatches :
           /\ batch_log[b].attempts >= 1
           /\ batch_log[b].attempts <= max_retries
    /\ \A b \in 1..Len(batch_log) :
           LET entry == batch_log[b]
           IN  /\ \A k \in 1..Len(entry.sleeps) : entry.sleeps[k] = pow2(k - 1)
               /\ Len(entry.sleeps)
                     = Cardinality({k \in 1..Len(entry.failures) :
                                        k < max_retries})
    /\ embed_pc = "raised" =>
           LET entry == batch_log[Len(batch_log)]
           IN  /\ Len(entry.failures) = max_retries
               /\ entry.orders = << >>
               /\ embed_raised = entry.failures[Len(entry.failures)]
               /\ embed_returned = << >>
    /\ \A b \in FinishedBatches :
           batch_log[b].orders # << >> =>
               /\ embed_pc # "raised" \/ b < Len(batch_log)
               /\ Len(all_embeddings) >= batch_log[b].start
                      + Len(batch_of(embed_texts, batch_log[b].start, batch_size))
    /\ embed_raised # never_reached

-----------------------------------------------------------------------------
(* Claims about the query flow *)

\* C25: in the query flow in mixed mode, the ann_score of every candidate is
\* the similarity the search returned for the hit (which the formatted
\* candidate carries as its score): the final score is
\* w_ann * similarity + w_lexical * normalised lexical score, and of two hits
\* with equal lexical scores the one with the higher similarity comes first.
C25_AnnScoreIsSearchScore ==
    (/\ rerank_pc = "returned"
     /\ mode = "embedding_bm25_mixed"
     /\ {"ann", "bm25"} \subseteq DOMAIN weights)
    => /\ \A i \in 1..Len(reranked) :
             reranked[i].final_score
                 = weights.ann * reranked[i].score * 100
                       + weights.bm25 * NormalizedLexical(reranked[i])
       /\ \A i, j \in 1..Len(reranked) :
             (/\ reranked[i].bm25_score = reranked[j].bm25_score
              /\ reranked[i].score > reranked[j].score)
                 => i < j

-----------------------------------------------------------------------------
(* Claims about concurrent calls *)

\* the digest of the chunk of the call thread t is in
ThreadDigest(t) == md5_hexdigest(doc_get_text(thread_doc[t]))

\* C26: the membership test and the add of _is_md5_duplicate are separate
\* steps with nothing to exclude the other call between them: the test of a
\* call looks at the recorded digests only, so it passes while the other
\* call stands between its own test and its add, and the add answers False
\* without testing again.  Hence the interleaving test, test, add, add of
\* two calls on the same content answers False to both (the witness).
C26_CheckThenRecordNotAtomic ==
    [][\A t \in Threads :
          /\ (thread_pc[t] = "check" /\ thread_pc'[t] # "check") =>
                /\ thread_pc'[t] = "record" <=> ThreadDigest(t) \notin seen_md5s
                /\ thread_pc'[t] = "done" <=> ThreadDigest(t) \in seen_md5s
          /\ (thread_pc[t] = "record" /\ thread_pc'[t] # "record") =>
                /\ thread_pc'[t] = "done"
                /\ thread_result'[t] = "False"
                /\ seen_md5s' = seen_md5s \cup {ThreadDigest(t)}
      ]_vars

\* both calls were handed the same text and both answered False; the digest
\* is recorded once
C26_Witness ==
    /\ \A t \in Threads :
           /\ thread_pc[t] = "done"
           /\ thread_result[t] = "False"
           /\ doc_get_text(thread_doc[t]) = fox
    /\ seen_md5s = {md5_hexdigest(fox)}

-----------------------------------------------------------------------------
(* Specifications: one per component, the other component at rest *)

DedupIdle ==
    /\ SIMHASH_AVAILABLE = TRUE
    /\ dedup_strategy = "md5"
    /\ seen_md5s = {}
    /\ seen_simhashes = << >>
    /\ seen_embeddings = << >>
    /\ calls = << >>

SplitIdle ==
    /\ SplitInit
    /\ JIEBA_AVAILABLE = TRUE

RerankIdle ==
    /\ RerankInit
    /\ config = [mode |-> "embedding_bm25_mixed",
                 weights |-> [ann |-> 7, bm25 |-> 3]]

EmbedIdle ==
    /\ max_retries = 1
    /\ batch_size = 1
    /\ embed_pc = "idle"
    /\ embed_texts = << >>
    /\ batch_start = 0
    /\ attempt = 0
    /\ all_embeddings = << >>
    /\ batch_log = << >>
    /\ embed_returned = << >>
    /\ embed_raised = "none"

QueryIdle == search_results = << >>

ThreadIdle ==
    /\ thread_pc = << >>
    /\ thread_doc = << >>
    /\ thread_result = << >>

DedupSpecInit == DedupInit /\ SplitIdle /\ RerankIdle
    /\ IngestInit /\ EmbedIdle /\ QueryIdle /\ ThreadIdle
DedupSpec == DedupSpecInit /\ [][DedupNext]_vars

SplitSpecInit == SplitInit /\ DedupIdle /\ RerankIdle
    /\ IngestInit /\ EmbedIdle /\ QueryIdle /\ ThreadIdle
SplitSpec == SplitSpecInit /\ [][SplitNext]_vars

UnitSpec == SplitSpecInit /\ [][UnitNext]_vars

RerankSpecInit == RerankInit /\ DedupIdle /\ SplitIdle
    /\ IngestInit /\ EmbedIdle /\ QueryIdle /\ ThreadIdle
RerankSpec == RerankSpecInit /\ [][RerankNext]_vars

IngestSpecInit ==
    /\ DedupInit /\ IngestInit
    /\ SplitIdle /\ RerankIdle /\ EmbedIdle /\ QueryIdle /\ ThreadIdle
IngestSpec == IngestSpecInit /\ [][IngestNext]_vars

EmbedSpecInit ==
    /\ EmbedInit
    /\ DedupIdle /\ SplitIdle /\ RerankIdle /\ IngestInit /\ QueryIdle
    /\ ThreadIdle
EmbedSpec == EmbedSpecInit /\ [][EmbedNext]_vars

QuerySpecInit ==
    /\ RerankInit /\ QueryIdle
    /\ DedupIdle /\ SplitIdle /\ IngestInit /\ EmbedIdle /\ ThreadIdle
QuerySpec == QuerySpecInit /\ [][QueryNext]_vars

ThreadSpecInit ==
    /\ ThreadInit
    /\ SplitIdle /\ RerankIdle /\ IngestInit /\ EmbedIdle /\ QueryIdle
ThreadSpec == ThreadSpecInit /\ [][ThreadNext]_vars

=============================================================================
